---- MODULE Spec2Model ----
(***************************************************************************)
(* NeonTodo data layer (src/src/data/repo.ts, src/src/data/backup.ts) over *)
(* the schema of src/src-tauri/migrations/001_init.sql.                    *)
(*                                                                         *)
(* The store is the content of the four tables as seen through the one     *)
(* connection getDb() hands to every operation.  Every operation is a      *)
(* call that runs its awaited statements one at a time; between two        *)
(* awaits of one call the statements of another call may run.              *)
(*                                                                         *)
(* Text (names, titles) is a tuple of one-character strings, so that       *)
(* trim() and toLowerCase() are computed.  Timestamps are clock readings.  *)
(***************************************************************************)
EXTENDS Integers, Sequences, FiniteSets, TLC

VARIABLES
    db,      \* the four tables as the connection sees them
    snap,    \* the tables at the BEGIN of the open transaction
    inTx,    \* whether a transaction is open on the connection
    clock,   \* what nowIso() returns
    calls,   \* per caller: the operation in flight (or the last one settled)
    used,    \* ids crypto.randomUUID() has handed out or the store has held
    ncalls,  \* calls started so far
    booted,  \* App's boot effect has awaited initDb()
    mode     \* "seq": a call starts when the last has settled; "conc": two calls
             \* overlap; "file", "list", "order": a first call, then a second

vars == <<db, snap, inTx, clock, calls, used, ncalls, booted, mode>>

----------------------------------------------------------------------------
(* Bounds of the model *)

MaxClock == 1
MaxCalls == 3

Procs == {1, 2}

----------------------------------------------------------------------------
(* Values *)

NULL == "NULL"
NoTime == -1
NoDate == -1

ProjIdSeq == <<"p1", "p2", "p3">>
TaskIdSeq == <<"t1", "t2">>
TagIdSeq == <<"g1", "g2">>

Range(s) == {s[i] : i \in DOMAIN s}

ProjIds == Range(ProjIdSeq)
TaskIds == Range(TaskIdSeq)
TagIds == Range(TagIdSeq)

InboxIcon == "inbox"
InboxColor == "#29f0ff"
InboxName == <<"I", "n", "b", "o", "x">>
inboxLower == <<"i", "n", "b", "o", "x">>

----------------------------------------------------------------------------
(* Text *)

LowerChar(c) ==
    CASE c = "I" -> "i"
      [] c = "N" -> "n"
      [] c = "B" -> "b"
      [] c = "O" -> "o"
      [] c = "X" -> "x"
      [] c = "W" -> "w"
      [] OTHER -> c

ToLower(s) == [i \in DOMAIN s |-> LowerChar(s[i])]

\* a variant of trim() that keeps the spaces
TrimNothing(s) == s

RECURSIVE TrimLeft(_)
TrimLeft(s) == IF s # <<>> /\ Head(s) = " " THEN TrimLeft(Tail(s)) ELSE s

RECURSIVE TrimRight(_)
TrimRight(s) ==
    IF s # <<>> /\ s[Len(s)] = " " THEN TrimRight(SubSeq(s, 1, Len(s) - 1)) ELSE s

Trim(s) == TrimRight(TrimLeft(s))

DigitChar(d) ==
    CASE d = 0 -> "0" [] d = 1 -> "1" [] d = 2 -> "2" [] d = 3 -> "3" [] d = 4 -> "4"
      [] d = 5 -> "5" [] d = 6 -> "6" [] d = 7 -> "7" [] d = 8 -> "8" [] OTHER -> "9"

RECURSIVE DecStr(_)
DecStr(n) == IF n < 10 THEN <<DigitChar(n)>> ELSE DecStr(n \div 10) \o <<DigitChar(n % 10)>>

Suffixed(base, n) == base \o <<" ", "(">> \o DecStr(n) \o <<")">>

----------------------------------------------------------------------------
(* The store: four tables, each a set of rows *)

EmptyDb == [projects |-> {}, tasks |-> {}, tags |-> {}, task_tags |-> {}]

ProjRow(id, name, color, icon, so, ca) ==
    [id |-> id, name |-> name, color |-> color, icon |-> icon, sort_order |-> so,
     created_at |-> ca]

TaskRow(id, pid, title, notes, completed, priority, due, so, ca, ua) ==
    [id |-> id, project_id |-> pid, title |-> title, notes |-> notes,
     completed |-> completed, priority |-> priority, due_at |-> due, sort_order |-> so,
     created_at |-> ca, updated_at |-> ua]

TagRow(id, name) == [id |-> id, name |-> name]

LinkRow(tid, gid) == [task_id |-> tid, tag_id |-> gid]

HasProject(d, id) == \E r \in d.projects : r.id = id
HasTask(d, id) == \E r \in d.tasks : r.id = id
HasTag(d, id) == \E r \in d.tags : r.id = id

IdsOf(rows) == {r.id : r \in rows}

MaxOf(S, dflt) == IF S = {} THEN dflt ELSE CHOOSE m \in S : \A x \in S : x <= m

Ok(d) == [ok |-> TRUE, db |-> d]
Fail(d) == [ok |-> FALSE, db |-> d]

----------------------------------------------------------------------------
(* Statements, as the engine runs them under PRAGMA foreign_keys = ON.      *)
(* Each yields [ok, db]: a failed statement leaves the tables as they were. *)

\* ON DELETE SET NULL of tasks.project_id
ProjectsRemoved(d, ids) ==
    [d EXCEPT !.projects = {r \in d.projects : r.id \notin ids},
              !.tasks = {IF r.project_id \in ids THEN [r EXCEPT !.project_id = NULL] ELSE r
                         : r \in d.tasks}]

\* a variant of the deletion of tasks that leaves their task_tags rows
TasksRemovedOnly(d, ids) == [d EXCEPT !.tasks = {r \in d.tasks : r.id \notin ids}]

\* ON DELETE CASCADE of task_tags.task_id
TasksRemoved(d, ids) ==
    [d EXCEPT !.tasks = {r \in d.tasks : r.id \notin ids},
              !.task_tags = {l \in d.task_tags : l.task_id \notin ids}]

\* ON DELETE CASCADE of task_tags.tag_id
TagsRemoved(d, ids) ==
    [d EXCEPT !.tags = {r \in d.tags : r.id \notin ids},
              !.task_tags = {l \in d.task_tags : l.tag_id \notin ids}]

\* INSERT INTO projects (...) VALUES (...)
InsertProject(d, row) ==
    IF HasProject(d, row.id) THEN Fail(d)
    ELSE Ok([d EXCEPT !.projects = @ \cup {row}])

\* INSERT OR REPLACE INTO projects: the row holding the id is deleted first
UpsertProject(d, row) ==
    LET d1 == ProjectsRemoved(d, {row.id})
    IN  Ok([d1 EXCEPT !.projects = @ \cup {row}])

\* INSERT INTO tasks (...) VALUES (...)
InsertTask(d, row) ==
    IF HasTask(d, row.id) THEN Fail(d)
    ELSE IF row.project_id # NULL /\ ~HasProject(d, row.project_id) THEN Fail(d)
    ELSE Ok([d EXCEPT !.tasks = @ \cup {row}])

\* INSERT OR REPLACE INTO tasks
UpsertTask(d, row) ==
    LET d1 == TasksRemoved(d, {row.id})
    IN  IF row.project_id # NULL /\ ~HasProject(d1, row.project_id) THEN Fail(d)
        ELSE Ok([d1 EXCEPT !.tasks = @ \cup {row}])

\* INSERT INTO tags (id, name): id is the primary key, name is UNIQUE
InsertTag(d, row) ==
    IF \E r \in d.tags : r.id = row.id \/ r.name = row.name THEN Fail(d)
    ELSE Ok([d EXCEPT !.tags = @ \cup {row}])

\* INSERT OR REPLACE INTO tags: every row in conflict (same id, same name) is deleted
UpsertTag(d, row) ==
    LET d1 == TagsRemoved(d, {r.id : r \in {x \in d.tags : x.id = row.id \/ x.name = row.name}})
    IN  Ok([d1 EXCEPT !.tags = @ \cup {row}])

\* INSERT OR REPLACE INTO task_tags
UpsertLink(d, row) ==
    IF ~HasTask(d, row.task_id) \/ ~HasTag(d, row.tag_id) THEN Fail(d)
    ELSE Ok([d EXCEPT !.task_tags = @ \cup {row}])

\* a variant without OR IGNORE: the primary key rejects a pair already there
InsertLinkStrict(d, row) ==
    IF row \in d.task_tags THEN Fail(d)
    ELSE IF ~HasTask(d, row.task_id) \/ ~HasTag(d, row.tag_id) THEN Fail(d)
    ELSE Ok([d EXCEPT !.task_tags = @ \cup {row}])

\* INSERT OR IGNORE INTO task_tags: a foreign key failure is not ignored
InsertLinkIgnore(d, row) ==
    IF row \in d.task_tags THEN Ok(d)
    ELSE IF ~HasTask(d, row.task_id) \/ ~HasTag(d, row.tag_id) THEN Fail(d)
    ELSE Ok([d EXCEPT !.task_tags = @ \cup {row}])

\* a variant whose UPDATE matches no row
UpdateTasksProjectNone(d, newPid, now, oldPid) == Ok(d)

\* UPDATE tasks SET project_id = $1, updated_at = $2 WHERE project_id = $3
UpdateTasksProject(d, newPid, now, oldPid) ==
    LET hit == {r \in d.tasks : r.project_id = oldPid}
    IN  IF hit # {} /\ newPid # NULL /\ ~HasProject(d, newPid) THEN Fail(d)
        ELSE Ok([d EXCEPT !.tasks =
                    {IF r \in hit THEN [r EXCEPT !.project_id = newPid, !.updated_at = now]
                     ELSE r : r \in d.tasks}])

\* a patch of updateTask: has holds the names of the fields that are not undefined
Patch(has, title, notes, priority, dueAt, projectId) ==
    [has |-> has, title |-> title, notes |-> notes, priority |-> priority, dueAt |-> dueAt,
     projectId |-> projectId]

\* a variant that also clears completed
PatchedAndReopened(r, patch, now) ==
    [r EXCEPT !.title = IF "title" \in patch.has THEN patch.title ELSE @,
              !.notes = IF "notes" \in patch.has THEN patch.notes ELSE @,
              !.priority = IF "priority" \in patch.has THEN patch.priority ELSE @,
              !.due_at = IF "dueAt" \in patch.has THEN patch.dueAt ELSE @,
              !.project_id = IF "projectId" \in patch.has THEN patch.projectId ELSE @,
              !.completed = 0,
              !.updated_at = now]

\* the row after UPDATE tasks SET <fields of the patch>, updated_at = $n
Patched(r, patch, now) ==
    [r EXCEPT !.title = IF "title" \in patch.has THEN patch.title ELSE @,
              !.notes = IF "notes" \in patch.has THEN patch.notes ELSE @,
              !.priority = IF "priority" \in patch.has THEN patch.priority ELSE @,
              !.due_at = IF "dueAt" \in patch.has THEN patch.dueAt ELSE @,
              !.project_id = IF "projectId" \in patch.has THEN patch.projectId ELSE @,
              !.updated_at = now]

\* UPDATE tasks SET ... WHERE id = $n
UpdateTaskFields(d, patch, now, id) ==
    LET hit == {r \in d.tasks : r.id = id}
    IN  IF /\ hit # {} /\ "projectId" \in patch.has
           /\ patch.projectId # NULL /\ ~HasProject(d, patch.projectId)
        THEN Fail(d)
        ELSE Ok([d EXCEPT !.tasks =
                    {IF r \in hit THEN Patched(r, patch, now) ELSE r : r \in d.tasks}])

\* UPDATE tasks SET completed = $1, updated_at = $2 WHERE id = $3
UpdateTaskCompleted(d, completed, now, id) ==
    Ok([d EXCEPT !.tasks =
           {IF r.id = id THEN [r EXCEPT !.completed = completed, !.updated_at = now] ELSE r
            : r \in d.tasks}])

\* DELETE FROM tasks WHERE id = $1
DeleteTaskRow(d, id) == Ok(TasksRemoved(d, {id}))

\* DELETE FROM task_tags WHERE task_id = $1 AND tag_id = $2
DeleteLink(d, row) == Ok([d EXCEPT !.task_tags = @ \ {row}])

\* DELETE FROM projects WHERE id = $1
DeleteProjectRow(d, id) == Ok(ProjectsRemoved(d, {id}))

\* a variant without the check of project_id
UpdateTaskSortAnyProject(d, i, now, id, pid) ==
    Ok([d EXCEPT !.tasks =
           {IF r.id = id
            THEN [r EXCEPT !.sort_order = i, !.updated_at = now] ELSE r : r \in d.tasks}])

\* a variant that stamps updated_at and leaves sort_order as it was
UpdateTaskSortStampOnly(d, i, now, id, pid) ==
    Ok([d EXCEPT !.tasks =
           {IF r.id = id /\ r.project_id = pid
            THEN [r EXCEPT !.updated_at = now] ELSE r : r \in d.tasks}])

\* UPDATE tasks SET sort_order = $1, updated_at = $2 WHERE id = $3 AND project_id IS $4
UpdateTaskSort(d, i, now, id, pid) ==
    Ok([d EXCEPT !.tasks =
           {IF r.id = id /\ r.project_id = pid
            THEN [r EXCEPT !.sort_order = i, !.updated_at = now] ELSE r : r \in d.tasks}])

\* UPDATE projects SET name = $1 WHERE id = $2
UpdateProjectName(d, name, id) ==
    Ok([d EXCEPT !.projects =
           {IF r.id = id THEN [r EXCEPT !.name = name] ELSE r : r \in d.projects}])

----------------------------------------------------------------------------
(* Calls *)

\* Beside the operation, its arguments (arg) and its local variables (loc), a call
\* keeps what the properties speak of: the tables when it was called (pre); for a
\* transaction the number of row writes it plans (total) and has executed (wrote),
\* whether its BEGIN succeeded (began), whether a fault was injected (faulted), the
\* tables at its BEGIN (txPre), before its COMMIT or ROLLBACK (txAll) and after (post),
\* the id of the Inbox row it inserted ahead of its transaction (lazy, "" if none);
\* for an import the number of statements it has executed on the connection (sql)
\* and the message App's error banner shows for it (banner, "" if none).
Idle == [op |-> "none", pc |-> "idle", status |-> "none", arg |-> <<>>, loc |-> <<>>,
         pre |-> EmptyDb, result |-> <<>>, total |-> 0, wrote |-> 0, began |-> FALSE,
         faulted |-> FALSE, txPre |-> EmptyDb, txAll |-> EmptyDb, post |-> EmptyDb,
         lazy |-> "", sql |-> 0, banner |-> ""]

NewCall(op, pc, arg, loc) ==
    [Idle EXCEPT !.op = op, !.pc = pc, !.status = "run", !.arg = arg, !.loc = loc, !.pre = db]

\* what a rejected promise carries: (e as any)?.message
ErrorMessage(status) ==
    CASE status = "cancelled" -> "Import cancelled"
      [] status = "format" -> "Unsupported backup format"
      [] status = "syntax" -> "JSON.parse: unexpected token"
      [] status = "protected" -> "Inbox cannot be deleted"
      [] status = "validation" -> "name required"
      [] OTHER -> "storage engine error"

\* The call returns (status "ok") or throws; the Import JSON button catches what
\* onImport throws and shows its message: onImport().catch((e) => setError(...))
Settled(c, status, result) ==
    [c EXCEPT !.pc = "done", !.status = status, !.loc = <<>>, !.result = result,
              !.banner = IF c.op = "onImport" /\ status # "ok" THEN ErrorMessage(status)
                         ELSE ""]

AtRest(c) == c.pc \in {"idle", "done"}

\* A caller may start a call: in "seq" mode the one caller awaits each call before
\* the next; in "conc" mode each of two callers makes one call and the two overlap
\* (the caller that starts first is called 1); in the other modes caller 1 makes
\* one call and caller 2 makes one after it has settled.
CanStart(p) ==
    /\ ncalls < MaxCalls
    /\ CASE mode = "seq" -> p = 1 /\ AtRest(calls[p])
         [] mode = "conc" -> calls[p].pc = "idle" /\ (p = 2 => calls[1].pc # "idle")
         [] OTHER -> calls[p].pc = "idle" /\ (p = 2 => calls[1].pc = "done")

\* the inputs a call is given: a narrow choice for overlapping calls, a wide one
\* otherwise
Inputs(wide, narrow) == IF mode = "conc" THEN narrow ELSE wide

At(p, pc) == calls[p].pc = pc

\* crypto.randomUUID(): an id never seen before
HasFresh(idSeq) == \E i \in DOMAIN idSeq : idSeq[i] \notin used
Fresh(idSeq) ==
    idSeq[CHOOSE i \in DOMAIN idSeq :
              idSeq[i] \notin used /\ \A j \in 1..(i - 1) : idSeq[j] \in used]

AllIds(d) == IdsOf(d.projects) \cup IdsOf(d.tasks) \cup IdsOf(d.tags)

Start(p, c) ==
    /\ CanStart(p)
    /\ calls' = [calls EXCEPT ![p] = c]
    /\ ncalls' = ncalls + 1

\* nowIso() advances between any two steps; two overlapping calls run within
\* one reading of the clock; in "task" mode each call runs within one reading and
\* the clock may advance between the calls
Tick ==
    /\ clock < MaxClock
    /\ \/ mode = "seq"
       \/ ncalls = 0
       \/ mode = "task" /\ \A p \in Procs : AtRest(calls[p])
    /\ clock' = clock + 1
    /\ UNCHANGED <<db, snap, inTx, calls, used, ncalls, booted, mode>>

----------------------------------------------------------------------------
(* BEGIN / COMMIT / ROLLBACK on the one connection *)

\* BEGIN fails inside an open transaction
BeginOk == ~inTx
\* COMMIT and ROLLBACK fail when no transaction is open
EndOk == inTx

\* a variant in which ROLLBACK keeps the writes made since BEGIN
RolledBackNothing == db

\* What ROLLBACK leaves in the tables
RolledBack == snap

----------------------------------------------------------------------------
(* initDb (repo.ts 19-31) *)

CallInitDb(p) ==
    /\ Start(p, NewCall("initDb", "init_count", <<>>, <<>>))
    /\ UNCHANGED <<db, snap, inTx, clock, used, booted, mode>>

\* SELECT COUNT(*) AS count FROM projects
InitDbCount(p) ==
    /\ At(p, "init_count")
    /\ IF Cardinality(db.projects) = 0
       THEN /\ HasFresh(ProjIdSeq)
            /\ calls' = [calls EXCEPT ![p].pc = "init_insert", ![p].loc = Fresh(ProjIdSeq)]
            /\ used' = used \cup {Fresh(ProjIdSeq)}
            /\ UNCHANGED booted
       ELSE /\ calls' = [calls EXCEPT ![p] = Settled(@, "ok", <<>>)]
            /\ booted' = TRUE
            /\ UNCHANGED used
    /\ UNCHANGED <<db, snap, inTx, clock, ncalls, mode>>

\* INSERT INTO projects ... [id, "Inbox", "#29f0ff", "inbox", 0, nowIso()]
InitDbInsert(p) ==
    /\ At(p, "init_insert")
    /\ LET r == InsertProject(db, ProjRow(calls[p].loc, InboxName, InboxColor, InboxIcon, 0, clock))
       IN  /\ db' = r.db
           /\ calls' = [calls EXCEPT ![p] = Settled(@, IF r.ok THEN "ok" ELSE "storage", <<>>)]
           /\ booted' = (booted \/ r.ok)
    /\ UNCHANGED <<snap, inTx, clock, used, ncalls, mode>>

----------------------------------------------------------------------------
(* createProject (repo.ts 104-129) *)

ProjectNameInputs == Inputs({<<"W">>, <<"w">>, <<" ">>}, {<<"W">>})
ProjectIconInputs == Inputs({"spark", InboxIcon}, {"spark"})
ProjectColorInputs == {"#5cffb2"}

\* a variant that stores the trimmed name as it is
UniqueNameAsGiven(base, lower) == base

\* a variant that takes the first suffix whether it is free or not
FreeSuffixFirst(base, lower, n) == n

\* the name createProject stores, given the lower-cased names it read
RECURSIVE FreeSuffix(_, _, _)
FreeSuffix(base, lower, n) ==
    IF ToLower(Suffixed(base, n)) \in lower THEN FreeSuffix(base, lower, n + 1) ELSE n

UniqueName(base, lower) ==
    IF ToLower(base) \in lower THEN Suffixed(base, FreeSuffix(base, lower, 2)) ELSE base

CallCreateProject(p) ==
    \E name \in ProjectNameInputs, color \in ProjectColorInputs, icon \in ProjectIconInputs :
        /\ booted
        /\ HasFresh(ProjIdSeq)
        /\ Start(p, NewCall("createProject", "cp_sort",
                            [name |-> name, color |-> color, icon |-> icon],
                            [id |-> Fresh(ProjIdSeq), createdAt |-> clock, sortOrder |-> 0,
                             name |-> <<>>]))
        /\ used' = used \cup {Fresh(ProjIdSeq)}
        /\ UNCHANGED <<db, snap, inTx, clock, booted, mode>>

\* SELECT COALESCE(MAX(sort_order), -1) + 1 AS next FROM projects; then the name check
CreateProjectSort(p) ==
    /\ At(p, "cp_sort")
    /\ LET next == MaxOf({r.sort_order : r \in db.projects}, -1) + 1
       IN  IF Trim(calls[p].arg.name) = <<>>
           THEN calls' = [calls EXCEPT ![p] = Settled(@, "validation", <<>>)]
           ELSE calls' = [calls EXCEPT ![p].pc = "cp_names", ![p].loc.sortOrder = next]
    /\ UNCHANGED <<db, snap, inTx, clock, used, ncalls, booted, mode>>

\* SELECT name FROM projects; then the suffix loop
CreateProjectNames(p) ==
    /\ At(p, "cp_names")
    /\ LET lower == {ToLower(r.name) : r \in db.projects}
       IN  calls' = [calls EXCEPT ![p].pc = "cp_insert",
                                  ![p].loc.name = UniqueName(Trim(calls[p].arg.name), lower)]
    /\ UNCHANGED <<db, snap, inTx, clock, used, ncalls, booted, mode>>

\* INSERT INTO projects ... [id, name, color, icon, sortOrder, createdAt]
CreateProjectInsert(p) ==
    /\ At(p, "cp_insert")
    /\ LET c == calls[p]
           row == ProjRow(c.loc.id, c.loc.name, c.arg.color, c.arg.icon, c.loc.sortOrder,
                          c.loc.createdAt)
           r == InsertProject(db, row)
       IN  /\ db' = r.db
           /\ calls' = [calls EXCEPT ![p] =
                           Settled(@, IF r.ok THEN "ok" ELSE "storage", IF r.ok THEN row ELSE <<>>)]
    /\ UNCHANGED <<snap, inTx, clock, used, ncalls, booted, mode>>

----------------------------------------------------------------------------
(* renameProject (repo.ts 131-136) *)

RenameIdInputs == Inputs(ProjIds, {"p2"})
RenameNameInputs == Inputs({<<"W">>, inboxLower, <<" ">>}, {<<"w">>})

CallRenameProject(p) ==
    \E id \in RenameIdInputs, name \in RenameNameInputs :
        /\ booted
        /\ IF Trim(name) = <<>>
           THEN Start(p, Settled(NewCall("renameProject", "rn_update", [id |-> id, name |-> name], <<>>),
                                 "validation", <<>>))
           ELSE Start(p, NewCall("renameProject", "rn_update", [id |-> id, name |-> name], <<>>))
        /\ UNCHANGED <<db, snap, inTx, clock, used, booted, mode>>

\* UPDATE projects SET name = $1 WHERE id = $2
RenameProjectUpdate(p) ==
    /\ At(p, "rn_update")
    /\ db' = UpdateProjectName(db, Trim(calls[p].arg.name), calls[p].arg.id).db
    /\ calls' = [calls EXCEPT ![p] = Settled(@, "ok", <<>>)]
    /\ UNCHANGED <<snap, inTx, clock, used, ncalls, booted, mode>>

----------------------------------------------------------------------------
(* createTask (repo.ts 269-303) *)

TitleInputs == Inputs({<<"x">>, <<" ">>}, {<<"x">>})
TaskProjectInputs == Inputs({"p1", "p2", NULL}, {"p2"})

CallCreateTask(p) ==
    \E title \in TitleInputs, pid \in TaskProjectInputs :
        /\ booted
        /\ HasFresh(TaskIdSeq)
        /\ Start(p, NewCall("createTask", "ct_sort",
                            [title |-> title, projectId |-> pid],
                            [id |-> Fresh(TaskIdSeq), createdAt |-> clock, sortOrder |-> 0]))
        /\ used' = used \cup {Fresh(TaskIdSeq)}
        /\ UNCHANGED <<db, snap, inTx, clock, booted, mode>>

\* a variant that takes the maximum over the tasks of every project
CreateTaskSortAnyScope(p) ==
    /\ At(p, "ct_sort")
    /\ LET next == MaxOf({r.sort_order : r \in db.tasks}, -1) + 1
       IN  calls' = [calls EXCEPT ![p].pc = "ct_insert", ![p].loc.sortOrder = next]
    /\ UNCHANGED <<db, snap, inTx, clock, used, ncalls, booted, mode>>

\* SELECT COALESCE(MAX(sort_order), -1) + 1 AS next FROM tasks WHERE project_id IS $1
CreateTaskSort(p) ==
    /\ At(p, "ct_sort")
    /\ LET scope == {r \in db.tasks : r.project_id = calls[p].arg.projectId}
           next == MaxOf({r.sort_order : r \in scope}, -1) + 1
       IN  calls' = [calls EXCEPT ![p].pc = "ct_insert", ![p].loc.sortOrder = next]
    /\ UNCHANGED <<db, snap, inTx, clock, used, ncalls, booted, mode>>

\* INSERT INTO tasks ... [id, projectId, title, "", 0, 0, null, sortOrder, createdAt, updatedAt]
CreateTaskInsert(p) ==
    /\ At(p, "ct_insert")
    /\ LET c == calls[p]
           row == TaskRow(c.loc.id, c.arg.projectId, Trim(c.arg.title), <<>>, 0, 0, NoDate,
                          c.loc.sortOrder, c.loc.createdAt, c.loc.createdAt)
           r == InsertTask(db, row)
       IN  /\ db' = r.db
           /\ calls' = [calls EXCEPT ![p] =
                           Settled(@, IF r.ok THEN "ok" ELSE "storage", IF r.ok THEN row ELSE <<>>)]
    /\ UNCHANGED <<snap, inTx, clock, used, ncalls, booted, mode>>

----------------------------------------------------------------------------
(* ensureTag (repo.ts 73-83), attachTagToTask (repo.ts 94-97) *)

TagNameInputs ==
    Inputs(IF mode = "name" THEN {<<"w">>, <<"W">>, <<" ">>, <<" ", "w">>} ELSE {<<"w">>, <<"W">>},
           {<<"u">>})
AttachInputs == Inputs(TaskIds \X TagIds, {<<"t2", "g1">>})

CallEnsureTag(p) ==
    \E name \in TagNameInputs :
        /\ booted
        /\ IF Trim(name) = <<>>
           THEN Start(p, Settled(NewCall("ensureTag", "et_select", [name |-> name], <<>>),
                                 "validation", <<>>))
           ELSE Start(p, NewCall("ensureTag", "et_select", [name |-> name], <<>>))
        /\ UNCHANGED <<db, snap, inTx, clock, used, booted, mode>>

\* a variant whose lookup finds no tag
EnsureTagSelectNone(p) ==
    /\ At(p, "et_select")
    /\ HasFresh(TagIdSeq)
    /\ calls' = [calls EXCEPT ![p].pc = "et_insert", ![p].loc = Fresh(TagIdSeq)]
    /\ used' = used \cup {Fresh(TagIdSeq)}
    /\ UNCHANGED <<db, snap, inTx, clock, ncalls, booted, mode>>

\* SELECT id, name FROM tags WHERE name = $1
EnsureTagSelect(p) ==
    /\ At(p, "et_select")
    /\ LET existing == {r \in db.tags : r.name = Trim(calls[p].arg.name)}
       IN  IF existing # {}
           THEN /\ \E r \in existing : calls' = [calls EXCEPT ![p] = Settled(@, "ok", r)]
                /\ UNCHANGED used
           ELSE /\ HasFresh(TagIdSeq)
                /\ calls' = [calls EXCEPT ![p].pc = "et_insert", ![p].loc = Fresh(TagIdSeq)]
                /\ used' = used \cup {Fresh(TagIdSeq)}
    /\ UNCHANGED <<db, snap, inTx, clock, ncalls, booted, mode>>

\* INSERT INTO tags (id, name) VALUES ($1, $2)
EnsureTagInsert(p) ==
    /\ At(p, "et_insert")
    /\ LET row == TagRow(calls[p].loc, Trim(calls[p].arg.name))
           r == InsertTag(db, row)
       IN  /\ db' = r.db
           /\ calls' = [calls EXCEPT ![p] =
                           Settled(@, IF r.ok THEN "ok" ELSE "storage", IF r.ok THEN row ELSE <<>>)]
    /\ UNCHANGED <<snap, inTx, clock, used, ncalls, booted, mode>>

CallAttachTag(p) ==
    \E a \in AttachInputs :
        /\ booted
        /\ Start(p, NewCall("attachTagToTask", "at_insert", [taskId |-> a[1], tagId |-> a[2]], <<>>))
        /\ UNCHANGED <<db, snap, inTx, clock, used, booted, mode>>

\* INSERT OR IGNORE INTO task_tags (task_id, tag_id) VALUES ($1, $2)
AttachTagInsert(p) ==
    /\ At(p, "at_insert")
    /\ LET r == InsertLinkIgnore(db, LinkRow(calls[p].arg.taskId, calls[p].arg.tagId))
       IN  /\ db' = r.db
           /\ calls' = [calls EXCEPT ![p] = Settled(@, IF r.ok THEN "ok" ELSE "storage", <<>>)]
    /\ UNCHANGED <<snap, inTx, clock, used, ncalls, booted, mode>>

CallDetachTag(p) ==
    \E a \in AttachInputs :
        /\ booted
        /\ Start(p, NewCall("detachTagFromTask", "dt_delete", [taskId |-> a[1], tagId |-> a[2]],
                            <<>>))
        /\ UNCHANGED <<db, snap, inTx, clock, used, booted, mode>>

\* DELETE FROM task_tags WHERE task_id = $1 AND tag_id = $2
DetachTagDelete(p) ==
    /\ At(p, "dt_delete")
    /\ db' = DeleteLink(db, LinkRow(calls[p].arg.taskId, calls[p].arg.tagId)).db
    /\ calls' = [calls EXCEPT ![p] = Settled(@, "ok", <<>>)]
    /\ UNCHANGED <<snap, inTx, clock, used, ncalls, booted, mode>>

----------------------------------------------------------------------------
(* toggleTaskCompleted (repo.ts 305-308), updateTask (repo.ts 310-342), *)
(* deleteTask (repo.ts 344-347)                                         *)

CallToggleTask(p) ==
    \E id \in TaskIds, completed \in BOOLEAN :
        /\ booted
        /\ Start(p, NewCall("toggleTaskCompleted", "tg_update",
                            [id |-> id, completed |-> completed], <<>>))
        /\ UNCHANGED <<db, snap, inTx, clock, used, booted, mode>>

\* the one UPDATE of toggleTaskCompleted; the result keeps the reading of nowIso()
\* it bound
ToggleTaskUpdate(p) ==
    /\ At(p, "tg_update")
    /\ db' = UpdateTaskCompleted(db, IF calls[p].arg.completed THEN 1 ELSE 0, clock,
                                 calls[p].arg.id).db
    /\ calls' = [calls EXCEPT ![p] = Settled(@, "ok", [now |-> clock])]
    /\ UNCHANGED <<snap, inTx, clock, used, ncalls, booted, mode>>

NoPatch == Patch({}, <<>>, <<>>, 0, NoDate, NULL)

PatchInputs ==
    {NoPatch,
     [NoPatch EXCEPT !.has = {"title"}, !.title = <<"y">>],
     [NoPatch EXCEPT !.has = {"title"}, !.title = <<" ">>],
     [NoPatch EXCEPT !.has = {"notes", "priority"}, !.notes = <<"X">>, !.priority = 1],
     [NoPatch EXCEPT !.has = {"dueAt"}, !.dueAt = 1],
     [NoPatch EXCEPT !.has = {"dueAt"}],
     [NoPatch EXCEPT !.has = {"projectId"}, !.projectId = "p1"],
     [NoPatch EXCEPT !.has = {"projectId"}],
     [NoPatch EXCEPT !.has = {"projectId"}, !.projectId = "p3"]}

CallUpdateTask(p) ==
    \E id \in TaskIds, patch \in PatchInputs :
        /\ booted
        /\ Start(p, NewCall("updateTask", "ut_update", [id |-> id, patch |-> patch], <<>>))
        /\ UNCHANGED <<db, snap, inTx, clock, used, booted, mode>>

\* the one UPDATE of updateTask; the result keeps the reading of nowIso() it bound
UpdateTaskUpdate(p) ==
    /\ At(p, "ut_update")
    /\ LET r == UpdateTaskFields(db, calls[p].arg.patch, clock, calls[p].arg.id)
       IN  /\ db' = r.db
           /\ calls' = [calls EXCEPT ![p] =
                           Settled(@, IF r.ok THEN "ok" ELSE "storage", [now |-> clock])]
    /\ UNCHANGED <<snap, inTx, clock, used, ncalls, booted, mode>>

CallDeleteTask(p) ==
    \E id \in TaskIds :
        /\ booted
        /\ Start(p, NewCall("deleteTask", "dk_delete", [id |-> id], <<>>))
        /\ UNCHANGED <<db, snap, inTx, clock, used, booted, mode>>

\* DELETE FROM tasks WHERE id = $1
DeleteTaskDelete(p) ==
    /\ At(p, "dk_delete")
    /\ db' = DeleteTaskRow(db, calls[p].arg.id).db
    /\ calls' = [calls EXCEPT ![p] = Settled(@, "ok", <<>>)]
    /\ UNCHANGED <<snap, inTx, clock, used, ncalls, booted, mode>>

----------------------------------------------------------------------------
(* The transaction frame shared by deleteProjectMoveToInbox (repo.ts 165-173), *)
(* reorderTasks (repo.ts 253-266) and importBundle (backup.ts 62-105)          *)

\* an injected storage fault on a row write inside a transaction
Faults == BOOLEAN

FirstStep(c) ==
    CASE c.op = "deleteProjectMoveToInbox" -> "dp_update"
      [] c.op = "reorderTasks" -> "ro_update"
      [] OTHER -> "im_stmt"

\* await db.execute("BEGIN"), outside the try: its failure is thrown as it is
TxBegin(p) ==
    /\ At(p, "begin")
    /\ IF BeginOk
       THEN /\ inTx' = TRUE
            /\ snap' = db
            /\ calls' = [calls EXCEPT ![p].pc = FirstStep(calls[p]), ![p].loc.now = clock,
                                      ![p].began = TRUE, ![p].txPre = db, ![p].sql = @ + 1]
       ELSE /\ calls' = [calls EXCEPT ![p] = [Settled(@, "storage", <<>>)
                                                EXCEPT !.post = db, !.sql = @ + 1]]
            /\ UNCHANGED <<inTx, snap>>
    /\ UNCHANGED <<db, clock, used, ncalls, booted, mode>>

\* await db.execute("COMMIT"), inside the try
TxCommit(p) ==
    /\ At(p, "commit")
    /\ IF EndOk
       THEN /\ inTx' = FALSE
            /\ snap' = EmptyDb
            /\ calls' = [calls EXCEPT ![p] =
                            [Settled(@, "ok", calls[p].loc)
                                EXCEPT !.txAll = db, !.post = db, !.sql = @ + 1]]
       ELSE /\ calls' = [calls EXCEPT ![p].pc = "rollback", ![p].sql = @ + 1]
            /\ UNCHANGED <<inTx, snap>>
    /\ UNCHANGED <<db, clock, used, ncalls, booted, mode>>

\* a variant whose catch block rethrows without executing ROLLBACK
TxRollbackSkipped(p) ==
    /\ At(p, "rollback")
    /\ calls' = [calls EXCEPT ![p] =
                    [Settled(@, "storage", <<>>) EXCEPT !.txAll = db, !.post = db]]
    /\ UNCHANGED <<db, snap, inTx, clock, used, ncalls, booted, mode>>

\* catch (e) { await db.execute("ROLLBACK"); throw e; }
TxRollback(p) ==
    /\ At(p, "rollback")
    /\ IF EndOk
       THEN /\ inTx' = FALSE
            /\ db' = RolledBack
            /\ snap' = EmptyDb
            /\ calls' = [calls EXCEPT ![p] =
                            [Settled(@, "storage", <<>>)
                                EXCEPT !.txAll = db, !.post = RolledBack, !.sql = @ + 1]]
       ELSE /\ calls' = [calls EXCEPT ![p] =
                            [Settled(@, "storage", <<>>)
                                EXCEPT !.txAll = db, !.post = db, !.sql = @ + 1]]
            /\ UNCHANGED <<inTx, snap, db>>
    /\ UNCHANGED <<clock, used, ncalls, booted, mode>>

\* one row write of the transaction of caller p: r is the statement's outcome
TxWrite(p, r, fault, nextPc, nextLoc) ==
    IF fault \/ ~r.ok
    THEN /\ calls' = [calls EXCEPT ![p].pc = "rollback", ![p].faulted = fault,
                                   ![p].sql = @ + 1]
         /\ UNCHANGED db
    ELSE /\ db' = r.db
         /\ calls' = [calls EXCEPT ![p].pc = nextPc, ![p].loc = nextLoc, ![p].wrote = @ + 1,
                                   ![p].sql = @ + 1]

----------------------------------------------------------------------------
(* deleteProjectMoveToInbox (repo.ts 155-174), ensureInboxProjectId (repo.ts 138-153) *)

\* a variant that looks at the icon only
IsInboxByIcon(r) == r.icon = InboxIcon

\* icon === "inbox" || String(name).toLowerCase() === "inbox"
IsInbox(r) == r.icon = InboxIcon \/ ToLower(r.name) = inboxLower

\* ORDER BY sort_order ASC, created_at ASC LIMIT 1: any row no other row precedes
FirstRows(rows) ==
    {r \in rows : \A o \in rows :
        \/ r.sort_order < o.sort_order
        \/ (r.sort_order = o.sort_order /\ r.created_at <= o.created_at)}

DeleteInputs == Inputs(ProjIds, {"p1", "p2"})

CallDeleteProject(p) ==
    \E id \in DeleteInputs :
        /\ booted
        /\ Start(p, [NewCall("deleteProjectMoveToInbox", "dp_meta", [id |-> id],
                             [inboxId |-> NULL, now |-> 0]) EXCEPT !.total = 2])
        /\ UNCHANGED <<db, snap, inTx, clock, used, booted, mode>>

\* a variant that goes on when no project has the id
DeleteProjectMetaUnchecked(p) ==
    /\ At(p, "dp_meta")
    /\ LET meta == {r \in db.projects : r.id = calls[p].arg.id}
       IN  IF \E r \in meta : IsInbox(r)
           THEN calls' = [calls EXCEPT ![p] = Settled(@, "protected", <<>>)]
           ELSE calls' = [calls EXCEPT ![p].pc = "dp_inbox_icon"]
    /\ UNCHANGED <<db, snap, inTx, clock, used, ncalls, booted, mode>>

\* SELECT icon, name FROM projects WHERE id = $1; then the protection check
DeleteProjectMeta(p) ==
    /\ At(p, "dp_meta")
    /\ LET meta == {r \in db.projects : r.id = calls[p].arg.id}
       IN  IF meta = {}
           THEN calls' = [calls EXCEPT ![p] = Settled(@, "ok", "absent")]
           ELSE IF \E r \in meta : IsInbox(r)
           THEN calls' = [calls EXCEPT ![p] = Settled(@, "protected", <<>>)]
           ELSE calls' = [calls EXCEPT ![p].pc = "dp_inbox_icon"]
    /\ UNCHANGED <<db, snap, inTx, clock, used, ncalls, booted, mode>>

\* SELECT id FROM projects WHERE icon = 'inbox' ORDER BY sort_order ASC, created_at ASC LIMIT 1
EnsureInboxByIcon(p) ==
    /\ At(p, "dp_inbox_icon")
    /\ LET rows == {r \in db.projects : r.icon = InboxIcon}
       IN  IF rows # {}
           THEN \E r \in FirstRows(rows) :
                    calls' = [calls EXCEPT ![p].pc = "begin", ![p].loc.inboxId = r.id]
           ELSE calls' = [calls EXCEPT ![p].pc = "dp_inbox_name"]
    /\ UNCHANGED <<db, snap, inTx, clock, used, ncalls, booted, mode>>

\* SELECT id FROM projects WHERE LOWER(name) = 'inbox' LIMIT 1
EnsureInboxByName(p) ==
    /\ At(p, "dp_inbox_name")
    /\ LET byName == {r \in db.projects : ToLower(r.name) = inboxLower}
       IN  IF byName # {}
           THEN /\ \E r \in byName :
                      calls' = [calls EXCEPT ![p].pc = "begin", ![p].loc.inboxId = r.id]
                /\ UNCHANGED used
           ELSE /\ HasFresh(ProjIdSeq)
                /\ calls' = [calls EXCEPT ![p].pc = "dp_inbox_insert",
                                          ![p].loc.inboxId = Fresh(ProjIdSeq)]
                /\ used' = used \cup {Fresh(ProjIdSeq)}
    /\ UNCHANGED <<db, snap, inTx, clock, ncalls, booted, mode>>

\* INSERT INTO projects ... [id, "Inbox", "#29f0ff", "inbox", 0, nowIso()]
EnsureInboxInsert(p) ==
    /\ At(p, "dp_inbox_insert")
    /\ LET r == InsertProject(db, ProjRow(calls[p].loc.inboxId, InboxName, InboxColor,
                                          InboxIcon, 0, clock))
       IN  /\ db' = r.db
           /\ calls' = IF r.ok THEN [calls EXCEPT ![p].pc = "begin",
                                                   ![p].lazy = calls[p].loc.inboxId]
                       ELSE [calls EXCEPT ![p] = Settled(@, "storage", <<>>)]
    /\ UNCHANGED <<snap, inTx, clock, used, ncalls, booted, mode>>

\* UPDATE tasks SET project_id = $1, updated_at = $2 WHERE project_id = $3
DeleteProjectUpdate(p) ==
    /\ At(p, "dp_update")
    /\ \E fault \in Faults :
          TxWrite(p, UpdateTasksProject(db, calls[p].loc.inboxId, clock, calls[p].arg.id),
                  fault, "dp_delete", calls[p].loc)
    /\ UNCHANGED <<snap, inTx, clock, used, ncalls, booted, mode>>

\* DELETE FROM projects WHERE id = $1
DeleteProjectDelete(p) ==
    /\ At(p, "dp_delete")
    /\ \E fault \in Faults :
          TxWrite(p, DeleteProjectRow(db, calls[p].arg.id), fault, "commit", calls[p].loc)
    /\ UNCHANGED <<snap, inTx, clock, used, ncalls, booted, mode>>

----------------------------------------------------------------------------
(* reorderTasks (repo.ts 251-267) *)

\* in "order" mode the lists name some of three tasks, a task twice, and an id
\* ("t9") that no task has
OrderInputs ==
    IF mode = "order"
    THEN {<<"t3", "t1">>, <<"t1", "t3">>, <<"t2">>, <<"t3", "t2", "t1">>, <<"t2", "t9">>,
          <<"t9", "t3">>, <<"t1", "t3", "t1">>}
    ELSE Inputs({<<"t1", "t2">>, <<"t2", "t1">>, <<"t2">>}, {<<"t2", "t1">>})
OrderProjectInputs == Inputs({"p1", "p2", NULL}, {"p2"})

CallReorderTasks(p) ==
    \E pid \in OrderProjectInputs, ids \in OrderInputs :
        /\ booted
        /\ Start(p, [NewCall("reorderTasks", "begin", [projectId |-> pid, ids |-> ids],
                             [i |-> 0, now |-> 0]) EXCEPT !.total = Len(ids)])
        /\ UNCHANGED <<db, snap, inTx, clock, used, booted, mode>>

\* a variant of the loop that counts the positions from 1
ReorderTasksUpdateFromOne(p) ==
    /\ At(p, "ro_update")
    /\ LET c == calls[p]
           i == c.loc.i
       IN  IF i < Len(c.arg.ids)
           THEN \E fault \in Faults :
                    TxWrite(p, UpdateTaskSort(db, i + 1, c.loc.now, c.arg.ids[i + 1],
                                              c.arg.projectId),
                            fault, IF i + 1 < Len(c.arg.ids) THEN "ro_update" ELSE "commit",
                            [c.loc EXCEPT !.i = i + 1])
           ELSE /\ calls' = [calls EXCEPT ![p].pc = "commit"]
                /\ UNCHANGED db
    /\ UNCHANGED <<snap, inTx, clock, used, ncalls, booted, mode>>

\* the loop over orderedTaskIds; updatedAt was read once, after BEGIN
ReorderTasksUpdate(p) ==
    /\ At(p, "ro_update")
    /\ LET c == calls[p]
           i == c.loc.i
       IN  IF i < Len(c.arg.ids)
           THEN \E fault \in Faults :
                    TxWrite(p, UpdateTaskSort(db, i, c.loc.now, c.arg.ids[i + 1], c.arg.projectId),
                            fault, IF i + 1 < Len(c.arg.ids) THEN "ro_update" ELSE "commit",
                            [c.loc EXCEPT !.i = i + 1])
           ELSE /\ calls' = [calls EXCEPT ![p].pc = "commit"]
                /\ UNCHANGED db
    /\ UNCHANGED <<snap, inTx, clock, used, ncalls, booted, mode>>

----------------------------------------------------------------------------
(* importBundle (backup.ts 60-106) *)

\* rows of backup documents; "" and <<>> stand for a missing id and a missing
\* name or title, NoTime for a missing timestamp
BundleProjects ==
    {<<>>,
     <<ProjRow("p1", <<"W">>, NULL, NULL, 0, 0)>>,
     <<ProjRow("p2", inboxLower, NULL, NULL, 1, NoTime)>>,
     <<ProjRow("p2", InboxName, InboxColor, InboxIcon, 0, 0)>>}

BundleTasks ==
    {<<>>,
     <<TaskRow("t1", "p1", <<"x">>, <<>>, 0, 0, NoDate, 0, 0, 0)>>,
     <<TaskRow("t1", "p1", <<"x">>, <<>>, 0, 0, NoDate, 0, 0, 0),
       TaskRow("t2", NULL, <<"x">>, <<>>, 1, 0, NoDate, 0, 0, 0)>>}

BundleTags ==
    {<<>>, <<TagRow("g1", <<"w">>)>>, <<TagRow("g2", <<"w">>)>>}

BundleLinks ==
    {<<>>, <<LinkRow("t1", "g1")>>}

Bundle(ps, ts, gs, ls) == [projects |-> ps, tasks |-> ts, tags |-> gs, task_tags |-> ls]

\* backups of a task saved earlier, of a task with a blank title and no time
\* stamps, of a tag and a link
TaskBundles ==
    {Bundle(<<>>, <<TaskRow("t1", "p1", <<"x">>, <<>>, 1, 0, NoDate, 0, 0, 0)>>, <<>>, <<>>),
     Bundle(<<>>, <<TaskRow("t1", NULL, <<" ">>, <<>>, 0, 0, NoDate, 0, NoTime, NoTime)>>,
            <<>>, <<>>),
     Bundle(<<>>, <<>>, <<TagRow("g2", <<"w">>)>>, <<LinkRow("t1", "g2")>>)}

Bundles ==
    Inputs(IF mode = "task" THEN TaskBundles
           ELSE {Bundle(ps, ts, gs, ls) :
                ps \in BundleProjects, ts \in BundleTasks, gs \in BundleTags, ls \in BundleLinks},
           {Bundle(<<ProjRow("p2", <<"W">>, NULL, NULL, 1, 0)>>,
                   <<TaskRow("t1", "p1", <<"x">>, <<>>, 0, 0, NoDate, 0, 0, 0)>>,
                   <<>>, <<>>),
            Bundle(<<>>, <<>>, <<TagRow("g2", <<"w">>)>>, <<LinkRow("t2", "g1")>>)})

\* if (!p?.id || !p?.name) continue;  and the like
ProjectKept(r) == r.id # "" /\ r.name # <<>>
TaskKept(r) == r.id # "" /\ r.title # <<>>
TagKept(r) == r.id # "" /\ r.name # <<>>
LinkKept(r) == r.task_id # "" /\ r.tag_id # ""

Tagged(kind, rows) == [i \in DOMAIN rows |-> [kind |-> kind, row |-> rows[i]]]

\* the statements importBundle executes, in order; a skipped row executes none
ImportStmts(b) ==
    Tagged("project", SelectSeq(b.projects, ProjectKept))
        \o Tagged("task", SelectSeq(b.tasks, TaskKept))
        \o Tagged("tag", SelectSeq(b.tags, TagKept))
        \o Tagged("link", SelectSeq(b.task_tags, LinkKept))

OrNow(t, now) == IF t = NoTime THEN now ELSE t

\* one INSERT OR REPLACE of importBundle, with its bind values
ImportExec(d, st, now) ==
    CASE st.kind = "project" ->
            UpsertProject(d, [st.row EXCEPT !.created_at = OrNow(@, now)])
      [] st.kind = "task" ->
            UpsertTask(d, [st.row EXCEPT !.created_at = OrNow(@, now),
                                         !.updated_at = OrNow(@, now)])
      [] st.kind = "tag" -> UpsertTag(d, st.row)
      [] OTHER -> UpsertLink(d, st.row)

StmtIds(st) == IF st.kind = "link" THEN {} ELSE {st.row.id}

CallImportBundle(p) ==
    \E b \in Bundles :
        /\ booted
        /\ Start(p, [NewCall("importBundle", "im_pragma", b, [i |-> 0, now |-> 0])
                        EXCEPT !.total = Len(ImportStmts(b))])
        /\ UNCHANGED <<db, snap, inTx, clock, used, booted, mode>>

\* await db.execute("PRAGMA foreign_keys = ON")
ImportPragma(p) ==
    /\ At(p, "im_pragma")
    /\ calls' = [calls EXCEPT ![p].pc = "begin", ![p].sql = @ + 1]
    /\ UNCHANGED <<db, snap, inTx, clock, used, ncalls, booted, mode>>

\* the four loops: the next row that is not skipped
ImportStmt(p) ==
    /\ At(p, "im_stmt")
    /\ LET c == calls[p]
           sts == ImportStmts(c.arg)
           i == c.loc.i
       IN  IF i < Len(sts)
           THEN /\ \E fault \in Faults :
                      TxWrite(p, ImportExec(db, sts[i + 1], clock), fault,
                              IF i + 1 < Len(sts) THEN "im_stmt" ELSE "commit",
                              [c.loc EXCEPT !.i = i + 1])
                /\ used' = used \cup StmtIds(sts[i + 1])
           ELSE /\ calls' = [calls EXCEPT ![p].pc = "commit"]
                /\ UNCHANGED <<db, used>>
    /\ UNCHANGED <<snap, inTx, clock, ncalls, booted, mode>>

\* importBundle run to its end with no other call in between, the clock at now:
\* [ok, db], where a failure leaves what ROLLBACK leaves
RECURSIVE ImportFrom(_, _, _, _)
ImportFrom(d, sts, i, now) ==
    IF i > Len(sts) THEN Ok(d)
    ELSE LET r == ImportExec(d, sts[i], now)
         IN  IF r.ok THEN ImportFrom(r.db, sts, i + 1, now) ELSE r

ImportRun(d, b, now) ==
    LET r == ImportFrom(d, ImportStmts(b), 1, now)
    IN  IF r.ok THEN r ELSE Fail(d)

----------------------------------------------------------------------------
(* App.onImport (App.tsx), importFromJsonFile (backup.ts 123-143),          *)
(* safeParseBackup (backup.ts 54-58)                                        *)

\* the version field of a parsed document: a JSON number, a JSON string, or absent
VersionOne == [type |-> "number", text |-> "1"]
Versions ==
    {VersionOne, [type |-> "number", text |-> "2"], [type |-> "string", text |-> "1"],
     [type |-> "missing", text |-> ""]}

\* what the picked file holds: text JSON.parse rejects, the JSON value null, or an
\* object with a version and the four arrays
Doc(parsed, version, b) ==
    [picked |-> TRUE, confirmed |-> TRUE, parsed |-> parsed, version |-> version,
     projects |-> b.projects, tasks |-> b.tasks, tags |-> b.tags, task_tags |-> b.task_tags]

NoBundle == Bundle(<<>>, <<>>, <<>>, <<>>)

\* bundles of a file: complete rows; a project row without name that a task
\* refers to; rows without id, name or title that no row refers to; a tag row
\* without name that a link refers to
FileBundles ==
    {Bundle(<<ProjRow("p3", <<"W">>, NULL, NULL, 2, 0)>>,
            <<TaskRow("t2", "p3", <<"x">>, <<>>, 0, 0, NoDate, 0, 0, 0)>>,
            <<TagRow("g2", <<"u">>)>>, <<LinkRow("t2", "g2")>>),
     Bundle(<<ProjRow("p3", <<>>, NULL, NULL, 2, 0)>>,
            <<TaskRow("t2", "p3", <<"x">>, <<>>, 0, 0, NoDate, 0, 0, 0)>>,
            <<>>, <<>>),
     Bundle(<<ProjRow("", <<"W">>, NULL, NULL, 2, 0), ProjRow("p3", <<"W">>, NULL, NULL, 2, 0)>>,
            <<TaskRow("t2", "p3", <<>>, <<>>, 0, 0, NoDate, 0, 0, 0)>>,
            <<TagRow("g2", <<>>)>>, <<LinkRow("", "g1")>>),
     Bundle(<<>>, <<>>, <<TagRow("g2", <<>>)>>, <<LinkRow("t1", "g2")>>)}

Docs ==
    {Doc("invalid", VersionOne, NoBundle), Doc("null", VersionOne, NoBundle)}
        \cup {Doc("object", v, b) : v \in Versions \ {VersionOne}, b \in {NoBundle}}
        \cup {Doc("object", VersionOne, b) : b \in FileBundles}

\* a variant that accepts any version
ParseOutcomeAnyVersion(doc) ==
    IF doc.parsed = "invalid" THEN "syntax"
    ELSE IF doc.parsed = "null" THEN "format"
    ELSE "ok"

\* JSON.parse(json); if (!data || data.version !== 1) throw new Error("Unsupported backup format")
ParseOutcome(doc) ==
    IF doc.parsed = "invalid" THEN "syntax"
    ELSE IF doc.parsed = "null" \/ doc.version # VersionOne THEN "format"
    ELSE "ok"

\* the click on Import JSON: setError(null), then importFromJsonFile(confirm(...))
CallOnImport(p) ==
    /\ booted
    /\ Start(p, NewCall("onImport", "oi_open",
                        [Doc("none", VersionOne, NoBundle) EXCEPT !.picked = FALSE,
                                                                  !.confirmed = FALSE],
                        [i |-> 0, now |-> 0]))
    /\ UNCHANGED <<db, snap, inTx, clock, used, booted, mode>>

\* await open({...}); if (!picked) throw new Error("Import cancelled")
ImportOpen(p) ==
    /\ At(p, "oi_open")
    /\ \E picked \in BOOLEAN :
          calls' = IF picked THEN [calls EXCEPT ![p].pc = "oi_confirm", ![p].arg.picked = TRUE]
                   ELSE [calls EXCEPT ![p] = Settled(@, "cancelled", <<>>)]
    /\ UNCHANGED <<db, snap, inTx, clock, used, ncalls, booted, mode>>

\* a variant that goes on whatever confirmMerge answers
ImportConfirmIgnored(p) ==
    /\ At(p, "oi_confirm")
    /\ \E ok \in BOOLEAN :
          calls' = [calls EXCEPT ![p].pc = "oi_parse", ![p].arg.confirmed = ok]
    /\ UNCHANGED <<db, snap, inTx, clock, used, ncalls, booted, mode>>

\* const ok = await confirmMerge(); if (!ok) throw new Error("Import cancelled")
ImportConfirm(p) ==
    /\ At(p, "oi_confirm")
    /\ \E ok \in BOOLEAN :
          calls' = IF ok THEN [calls EXCEPT ![p].pc = "oi_parse", ![p].arg.confirmed = TRUE]
                   ELSE [calls EXCEPT ![p] = Settled(@, "cancelled", <<>>)]
    /\ UNCHANGED <<db, snap, inTx, clock, used, ncalls, booted, mode>>

\* readTextFile(path), safeParseBackup(json); then importBundle(db, bundle)
ImportParse(p) ==
    /\ At(p, "oi_parse")
    /\ \E doc \in Docs :
          LET arg == [doc EXCEPT !.confirmed = calls[p].arg.confirmed]
          IN  calls' = IF ParseOutcome(doc) = "ok"
                       THEN [calls EXCEPT ![p].pc = "im_pragma", ![p].arg = arg,
                                          ![p].total = Len(ImportStmts(doc))]
                       ELSE [calls EXCEPT ![p] = Settled([@ EXCEPT !.arg = arg],
                                                         ParseOutcome(doc), <<>>)]
    /\ UNCHANGED <<db, snap, inTx, clock, used, ncalls, booted, mode>>

----------------------------------------------------------------------------
(* exportBundle (backup.ts 34-52) *)

RECURSIVE LexLeq(_, _)
LexLeq(a, b) ==
    \/ a = <<>>
    \/ (b # <<>> /\ Head(a) < Head(b))
    \/ (b # <<>> /\ Head(a) = Head(b) /\ LexLeq(Tail(a), Tail(b)))

\* the rows of S in ascending order of key[row]; rows of equal key in some order
RECURSIVE SortByKey(_, _)
SortByKey(S, key) ==
    IF S = {} THEN <<>>
    ELSE LET m == CHOOSE x \in S : \A y \in S : LexLeq(key[x], key[y])
         IN  <<m>> \o SortByKey(S \ {m}, key)

RECURSIVE SeqOfSet(_)
SeqOfSet(S) == IF S = {} THEN <<>> ELSE LET m == CHOOSE x \in S : TRUE IN <<m>> \o SeqOfSet(S \ {m})

\* ... FROM projects ORDER BY sort_order ASC, created_at ASC
SelectProjects(d) == SortByKey(d.projects, [r \in d.projects |-> <<r.sort_order, r.created_at>>])
\* ... FROM tasks ORDER BY created_at ASC
SelectTasks(d) == SortByKey(d.tasks, [r \in d.tasks |-> <<r.created_at>>])
\* SELECT id, name FROM tags ORDER BY name ASC (the order among names is left open)
SelectTags(d) == SeqOfSet(d.tags)
\* SELECT task_id, tag_id FROM task_tags
SelectLinks(d) == SeqOfSet(d.task_tags)

CallExportBundle(p) ==
    /\ booted
    /\ Start(p, NewCall("exportBundle", "ex_projects", <<>>,
                        [projects |-> <<>>, tasks |-> <<>>, tags |-> <<>>, task_tags |-> <<>>]))
    /\ UNCHANGED <<db, snap, inTx, clock, used, booted, mode>>

ExportProjects(p) ==
    /\ At(p, "ex_projects")
    /\ calls' = [calls EXCEPT ![p].pc = "ex_tasks", ![p].loc.projects = SelectProjects(db)]
    /\ UNCHANGED <<db, snap, inTx, clock, used, ncalls, booted, mode>>

ExportTasks(p) ==
    /\ At(p, "ex_tasks")
    /\ calls' = [calls EXCEPT ![p].pc = "ex_tags", ![p].loc.tasks = SelectTasks(db)]
    /\ UNCHANGED <<db, snap, inTx, clock, used, ncalls, booted, mode>>

ExportTags(p) ==
    /\ At(p, "ex_tags")
    /\ calls' = [calls EXCEPT ![p].pc = "ex_links", ![p].loc.tags = SelectTags(db)]
    /\ UNCHANGED <<db, snap, inTx, clock, used, ncalls, booted, mode>>

ExportLinks(p) ==
    /\ At(p, "ex_links")
    /\ calls' = [calls EXCEPT ![p] =
                    Settled(@, "ok", [calls[p].loc EXCEPT !.task_tags = SelectLinks(db)])]
    /\ UNCHANGED <<db, snap, inTx, clock, used, ncalls, booted, mode>>

----------------------------------------------------------------------------
(* listProjects (repo.ts 59-65), listTasks (repo.ts 176-249) *)

\* todayIsoDate(): the calendar date of the clock, one tick a day
TodayOf(t) == t

mapProject(r) ==
    [id |-> r.id, name |-> r.name, color |-> r.color, icon |-> r.icon,
     sortOrder |-> r.sort_order, createdAt |-> r.created_at]

mapTask(r) ==
    [id |-> r.id, projectId |-> r.project_id, title |-> r.title, notes |-> r.notes,
     completed |-> (r.completed # 0), priority |-> r.priority, dueAt |-> r.due_at,
     sortOrder |-> r.sort_order, createdAt |-> r.created_at, updatedAt |-> r.updated_at]

MapSeq(f(_), s) == [i \in DOMAIN s |-> f(s[i])]

\* text LIKE pattern: % is any run of characters, _ any one, letters match in either case
RECURSIVE Like(_, _)
Like(t, pat) ==
    IF pat = <<>> THEN t = <<>>
    ELSE IF Head(pat) = "%" THEN Like(t, Tail(pat)) \/ (t # <<>> /\ Like(Tail(t), pat))
    ELSE /\ t # <<>>
         /\ (Head(pat) = "_" \/ LowerChar(Head(pat)) = LowerChar(Head(t)))
         /\ Like(Tail(t), Tail(pat))

Truthy(id) == id # NULL /\ id # ""
NonEmptyId(id) == id # ""

\* a variant whose "upcoming" view also takes the tasks due today
TaskMatchesFromToday(d, r, params, today) ==
    /\ params.view = "completed" => r.completed = 1
    /\ params.view \in {"today", "upcoming"} => r.completed = 0
    /\ params.view = "today" => (r.due_at # NoDate /\ r.due_at = today)
    /\ params.view = "upcoming" => (r.due_at = NoDate \/ r.due_at >= today)
    /\ Truthy(params.projectId) => r.project_id = params.projectId

\* the WHERE clause listTasks composes
TaskMatches(d, r, params, today) ==
    /\ params.view = "completed" => r.completed = 1
    /\ params.view \in {"today", "upcoming"} => r.completed = 0
    /\ params.view = "today" => (r.due_at # NoDate /\ r.due_at = today)
    /\ params.view = "upcoming" => (r.due_at = NoDate \/ r.due_at > today)
    /\ Truthy(params.projectId) => r.project_id = params.projectId
    /\ Trim(params.search) # <<>> =>
           LET q == <<"%">> \o Trim(params.search) \o <<"%">>
           IN  Like(r.title, q) \/ Like(r.notes, q)
    /\ LET ids == SelectSeq(params.tagIds, NonEmptyId)
       IN  Len(ids) > 0 =>
               Cardinality({l.tag_id : l \in {x \in d.task_tags :
                                x.task_id = r.id /\ x.tag_id \in Range(ids)}}) = Len(ids)

\* a variant that orders by due_at without putting the NULLs last
TaskOrderKeyNullsFirst(r, params) == <<r.due_at, r.sort_order, r.created_at>>

\* the ORDER BY clause listTasks composes
TaskOrderKey(r, params) ==
    IF Truthy(params.projectId) THEN <<r.sort_order, r.created_at>>
    ELSE <<IF r.due_at = NoDate THEN 1 ELSE 0, r.due_at, r.sort_order, r.created_at>>

ListTasksRows(d, params, today) ==
    LET rows == {r \in d.tasks : TaskMatches(d, r, params, today)}
    IN  MapSeq(mapTask, SortByKey(rows, [r \in rows |-> TaskOrderKey(r, params)]))

ListProjectsRows(d) == MapSeq(mapProject, SelectProjects(d))

Params(view, pid, search, tagIds) ==
    [view |-> view, projectId |-> pid, search |-> search, tagIds |-> tagIds]

\* type SmartView
Views == {"today", "upcoming", "completed", "all"}

\* what the search box and the filter chips can hold
SearchInputs == {<<" ">>, <<"x">>, <<"X">>, <<"%">>, <<"_">>, <<" ", "x", " ">>}
TagListInputs == {<<"g1">>, <<"g1", "g2">>, <<"g1", "g1">>, <<"", "g1">>}

\* the params of listTasks: every view with and without a project, and from the
\* view "all" one search text or one list of tag ids
ListInputs ==
    IF mode = "list"
    THEN {Params(v, pid, <<>>, <<>>) : v \in Views, pid \in {NULL, "p1"}}
         \cup {Params("all", NULL, q, <<>>) : q \in SearchInputs}
         \cup {Params("all", NULL, <<>>, ids) : ids \in TagListInputs}
    ELSE IF mode = "order"
    THEN {Params("all", pid, <<>>, <<>>) : pid \in {NULL, "p1", "p2"}}
    ELSE {Params("all", NULL, <<>>, <<>>)}

CallListTasks(p) ==
    \E params \in ListInputs :
        /\ booted
        /\ Start(p, NewCall("listTasks", "lt_select", params, [today |-> TodayOf(clock)]))
        /\ UNCHANGED <<db, snap, inTx, clock, used, booted, mode>>

\* the one select of listTasks; the caller also notes whether it ran inside an
\* open transaction and what the tables held when that transaction began
ListTasksSelect(p) ==
    /\ At(p, "lt_select")
    /\ calls' = [calls EXCEPT ![p] =
                    Settled(@, "ok",
                            [rows |-> ListTasksRows(db, calls[p].arg, calls[p].loc.today),
                             inTx |-> inTx,
                             before |-> ListTasksRows(snap, calls[p].arg, calls[p].loc.today)])]
    /\ UNCHANGED <<db, snap, inTx, clock, used, ncalls, booted, mode>>

CallListProjects(p) ==
    /\ booted
    /\ Start(p, NewCall("listProjects", "lp_select", <<>>, <<>>))
    /\ UNCHANGED <<db, snap, inTx, clock, used, booted, mode>>

ListProjectsSelect(p) ==
    /\ At(p, "lp_select")
    /\ calls' = [calls EXCEPT ![p] =
                    Settled(@, "ok", [rows |-> ListProjectsRows(db), inTx |-> inTx,
                                      before |-> ListProjectsRows(snap)])]
    /\ UNCHANGED <<db, snap, inTx, clock, used, ncalls, booted, mode>>

----------------------------------------------------------------------------
(* The specifications *)

NoCalls == [p \in Procs |-> Idle]

\* a first run: the tables are empty and App's boot effect has yet to call initDb
InitSeq ==
    /\ db = EmptyDb
    /\ snap = EmptyDb
    /\ inTx = FALSE
    /\ clock = 0
    /\ calls = NoCalls
    /\ used = {}
    /\ ncalls = 0
    /\ booted = FALSE
    /\ mode = "seq"

\* stores a sequence of calls builds: Inbox, a project "W" with two tasks, a tag on one
SeedA ==
    [projects |-> {ProjRow("p1", InboxName, InboxColor, InboxIcon, 0, 0),
                   ProjRow("p2", <<"W">>, "#5cffb2", "spark", 1, 0)},
     tasks |-> {TaskRow("t1", "p2", <<"x">>, <<>>, 0, 0, NoDate, 0, 0, 0),
                TaskRow("t2", "p2", <<"x">>, <<>>, 0, 0, NoDate, 1, 0, 0)},
     tags |-> {TagRow("g1", <<"w">>)},
     task_tags |-> {LinkRow("t1", "g1")}]

SeedB ==
    [projects |-> {ProjRow("p1", InboxName, InboxColor, InboxIcon, 0, 0),
                   ProjRow("p2", <<"W">>, "#5cffb2", "spark", 1, 0)},
     tasks |-> {TaskRow("t1", "p2", <<"x">>, <<>>, 0, 0, NoDate, 0, 0, 0)},
     tags |-> {},
     task_tags |-> {}]

\* a store whose Inbox row an import has overwritten: no project is marked inbox
SeedC ==
    [projects |-> {ProjRow("p1", <<"W">>, NULL, NULL, 0, 0)},
     tasks |-> {TaskRow("t1", "p1", <<"x">>, <<>>, 0, 0, NoDate, 0, 0, 0)},
     tags |-> {},
     task_tags |-> {}]

\* EmptyDb is the migrated store before the boot effect has run initDb
Seeds == {EmptyDb, SeedA, SeedB, SeedC}

InitConc ==
    /\ db \in Seeds
    /\ snap = EmptyDb
    /\ inTx = FALSE
    /\ clock = 0
    /\ calls = NoCalls
    /\ used = AllIds(db)
    /\ ncalls = 0
    /\ booted = (db # EmptyDb)
    /\ mode = "conc"

Next ==
    \/ Tick
    \/ \E p \in Procs :
        \/ CallInitDb(p) \/ InitDbCount(p) \/ InitDbInsert(p)
        \/ CallCreateProject(p) \/ CreateProjectSort(p) \/ CreateProjectNames(p)
        \/ CreateProjectInsert(p)
        \/ CallRenameProject(p) \/ RenameProjectUpdate(p)
        \/ CallCreateTask(p) \/ CreateTaskSort(p) \/ CreateTaskInsert(p)
        \/ CallEnsureTag(p) \/ EnsureTagSelect(p) \/ EnsureTagInsert(p)
        \/ CallAttachTag(p) \/ AttachTagInsert(p)
        \/ CallDeleteProject(p) \/ DeleteProjectMeta(p) \/ EnsureInboxByIcon(p)
        \/ EnsureInboxByName(p) \/ EnsureInboxInsert(p)
        \/ DeleteProjectUpdate(p) \/ DeleteProjectDelete(p)
        \/ CallReorderTasks(p) \/ ReorderTasksUpdate(p)
        \/ CallImportBundle(p) \/ ImportPragma(p) \/ ImportStmt(p)
        \/ TxBegin(p) \/ TxCommit(p) \/ TxRollback(p)
        \/ CallExportBundle(p) \/ ExportProjects(p) \/ ExportTasks(p) \/ ExportTags(p)
        \/ ExportLinks(p)
        \/ CallListTasks(p) \/ ListTasksSelect(p)
        \/ CallListProjects(p) \/ ListProjectsSelect(p)

Spec == InitSeq /\ [][Next]_vars

SpecConc == InitConc /\ [][Next]_vars

\* clicks on Import JSON, on a store that calls have built
InitFile ==
    /\ db \in Seeds \ {EmptyDb}
    /\ snap = EmptyDb
    /\ inTx = FALSE
    /\ clock = 0
    /\ calls = NoCalls
    /\ used = AllIds(db)
    /\ ncalls = 0
    /\ booted = TRUE
    /\ mode = "file"

NextFile ==
    \/ Tick
    \/ \E p \in Procs :
        \/ CallOnImport(p) \/ ImportOpen(p) \/ ImportConfirm(p) \/ ImportParse(p)
        \/ ImportPragma(p) \/ ImportStmt(p)
        \/ TxBegin(p) \/ TxCommit(p) \/ TxRollback(p)

SpecFile == InitFile /\ [][NextFile]_vars

\* t1 carries both tags, t2 one, t3 none
ListLinks == {LinkRow("t1", "g1"), LinkRow("t1", "g2"), LinkRow("t2", "g1")}

\* the store initDb leaves: the Inbox project and nothing else
SeedInbox ==
    [projects |-> {ProjRow("p1", InboxName, InboxColor, InboxIcon, 0, 0)},
     tasks |-> {}, tags |-> {}, task_tags |-> {}]

InitName ==
    /\ db \in {SeedInbox, SeedA, SeedC}
    /\ snap = EmptyDb
    /\ inTx = FALSE
    /\ clock = 0
    /\ calls = NoCalls
    /\ used = AllIds(db)
    /\ ncalls = 0
    /\ booted = TRUE
    /\ mode = "name"

\* the calls that take a name, one after another
NextName ==
    \/ Tick
    \/ \E p \in Procs :
        \/ CallCreateProject(p) \/ CreateProjectSort(p) \/ CreateProjectNames(p)
        \/ CreateProjectInsert(p)
        \/ CallRenameProject(p) \/ RenameProjectUpdate(p)
        \/ CallEnsureTag(p) \/ EnsureTagSelect(p) \/ EnsureTagInsert(p)

SpecName == InitName /\ [][NextName]_vars

InitTask ==
    /\ db \in {SeedInbox, SeedA, SeedB, SeedC}
    /\ snap = EmptyDb
    /\ inTx = FALSE
    /\ clock = 0
    /\ calls = NoCalls
    /\ used = AllIds(db)
    /\ ncalls = 0
    /\ booted = TRUE
    /\ mode = "task"

\* the calls that write tasks and their tags, one after another
NextTask ==
    \/ Tick
    \/ \E p \in Procs :
        \/ CallCreateProject(p) \/ CreateProjectSort(p) \/ CreateProjectNames(p)
        \/ CreateProjectInsert(p)
        \/ CallCreateTask(p) \/ CreateTaskSort(p) \/ CreateTaskInsert(p)
        \/ CallUpdateTask(p) \/ UpdateTaskUpdate(p)
        \/ CallToggleTask(p) \/ ToggleTaskUpdate(p)
        \/ CallDeleteTask(p) \/ DeleteTaskDelete(p)
        \/ CallAttachTag(p) \/ AttachTagInsert(p)
        \/ CallDetachTag(p) \/ DetachTagDelete(p)
        \/ CallReorderTasks(p) \/ ReorderTasksUpdate(p)
        \/ CallDeleteProject(p) \/ DeleteProjectMeta(p) \/ EnsureInboxByIcon(p)
        \/ EnsureInboxByName(p) \/ EnsureInboxInsert(p)
        \/ DeleteProjectUpdate(p) \/ DeleteProjectDelete(p)
        \/ CallImportBundle(p) \/ ImportPragma(p) \/ ImportStmt(p)
        \/ TxBegin(p) \/ TxCommit(p) \/ TxRollback(p)

SpecTask == InitTask /\ [][NextTask]_vars

\* stores for listing: three tasks that differ in project, completion, due date,
\* position, text and tags (toggleTaskCompleted, updateTask and attachTagToTask
\* set these fields)
ListStore(c1, d1, pj2, d2, s2) ==
    [projects |-> {ProjRow("p1", InboxName, InboxColor, InboxIcon, 0, 0),
                   ProjRow("p2", <<"W">>, "#5cffb2", "spark", 1, 0)},
     tasks |-> {TaskRow("t1", "p1", <<"x">>, <<>>, c1, 0, d1, 1, 0, 0),
                TaskRow("t2", pj2, <<"w", "%">>, <<"X">>, 0, 0, d2, s2, 1, 1),
                TaskRow("t3", "p2", <<"y">>, <<>>, 0, 0, NoDate, 0, 0, 0)},
     tags |-> {TagRow("g1", <<"w">>), TagRow("g2", <<"u">>)},
     task_tags |-> ListLinks]

ListStores ==
    {ListStore(c1, d1, pj2, d2, s2) :
        c1 \in {0, 1}, d1 \in {NoDate, 0, 1, 2}, pj2 \in {"p1", NULL},
        d2 \in {NoDate, 1}, s2 \in {0, 2}}

InitList ==
    /\ db \in ListStores
    /\ snap = EmptyDb
    /\ inTx = FALSE
    /\ clock = 0
    /\ calls = NoCalls
    /\ used = AllIds(db)
    /\ ncalls = 0
    /\ booted = TRUE
    /\ mode = "list"

\* App.refresh and the drag-and-drop handler: listTasks, and reorderTasks followed
\* by listTasks
NextList ==
    \/ Tick
    \/ \E p \in Procs :
        \/ CallListTasks(p) \/ ListTasksSelect(p)
        \/ CallReorderTasks(p) \/ ReorderTasksUpdate(p)
        \/ TxBegin(p) \/ TxCommit(p) \/ TxRollback(p)

SpecList == InitList /\ [][NextList]_vars

\* stores for reordering: tasks t1 and t2 in project p2, and t3 in p2, in Inbox
\* or in no project, at positions createTask gives or reorderTasks has left
OrderStore(pj3, s1, s3) ==
    [projects |-> {ProjRow("p1", InboxName, InboxColor, InboxIcon, 0, 0),
                   ProjRow("p2", <<"W">>, "#5cffb2", "spark", 1, 0)},
     tasks |-> {TaskRow("t1", "p2", <<"x">>, <<>>, 0, 0, NoDate, s1, 0, 0),
                TaskRow("t2", "p2", <<"y">>, <<>>, 0, 0, NoDate, 1, 0, 0),
                TaskRow("t3", pj3, <<"z">>, <<>>, 0, 0, NoDate, s3, 0, 0)},
     tags |-> {},
     task_tags |-> {}]

OrderStores ==
    {OrderStore(pj3, s1, s3) : pj3 \in {"p2", "p1", NULL}, s1 \in {0, 1}, s3 \in {0, 2}}

InitOrder ==
    /\ db \in OrderStores
    /\ snap = EmptyDb
    /\ inTx = FALSE
    /\ clock = 0
    /\ calls = NoCalls
    /\ used = AllIds(db)
    /\ ncalls = 0
    /\ booted = TRUE
    /\ mode = "order"

\* TaskRow onDropOn: reorderTasks with the ids the list shows, then listTasks
NextOrder ==
    \/ Tick
    \/ \E p \in Procs :
        \/ CallReorderTasks(p) \/ ReorderTasksUpdate(p)
        \/ TxBegin(p) \/ TxCommit(p) \/ TxRollback(p)
        \/ CallListTasks(p) \/ ListTasksSelect(p)

SpecOrder == InitOrder /\ [][NextOrder]_vars

----------------------------------------------------------------------------
(* Properties *)

TxOps == {"deleteProjectMoveToInbox", "reorderTasks", "importBundle"}
ReadOps == {"listTasks", "listProjects"}

IsDone(c) == c.pc = "done"

InboxMarked(d) == {r \in d.projects : r.icon = InboxIcon}

\* C1: when two transactional operations overlap on the one connection, then once
\* both have settled each of them has left either all of its row changes (every
\* planned write of its transaction, and the Inbox row it inserted on the way) or
\* none of them (the tables as at its BEGIN, and no Inbox row of its making)
C1_AllOrNothing ==
    (\A p \in Procs : IsDone(calls[p]) /\ calls[p].op \in TxOps) =>
        \A p \in Procs :
            LET c == calls[p]
            IN  \/ /\ c.status = "ok"
                   /\ c.began => (c.wrote = c.total /\ c.post = c.txAll)
                \/ /\ c.status # "ok"
                   /\ c.began => c.post = c.txPre
                   /\ ~c.began => c.wrote = 0
                   /\ c.lazy # "" => ~(\E r \in InboxMarked(db) : r.id = c.lazy)

\* C2: when the UPDATE or the DELETE of deleteProjectMoveToInbox(id) fails, then
\* after the call has raised the project row id still exists and every task that
\* was in project id is as it was before the call
C2_FaultKeepsProject ==
    \A p \in Procs :
        LET c == calls[p]
        IN  (IsDone(c) /\ c.op = "deleteProjectMoveToInbox" /\ c.began /\ c.status # "ok") =>
                /\ c.status = "storage"
                /\ HasProject(db, c.arg.id)
                /\ \A t \in c.pre.tasks : t.project_id = c.arg.id => t \in db.tasks

\* a fault on the DELETE, after the UPDATE had moved a task of the project
C2_Witness ==
    \E p \in Procs :
        LET c == calls[p]
        IN  /\ IsDone(c) /\ c.op = "deleteProjectMoveToInbox" /\ c.began
            /\ c.status = "storage" /\ c.faulted /\ c.wrote = 1
            /\ \E t \in c.pre.tasks : t.project_id = c.arg.id /\ t \notin c.txAll.tasks

\* C3: after deleteProjectMoveToInbox(id) has succeeded on a project that is not
\* the inbox, the row id is gone, the inbox is another project that exists, the
\* set of task ids is unchanged, every task that was in id is in the inbox and
\* every other task is in the project it was in
C3_DeleteMovesTasks ==
    \A p \in Procs :
        LET c == calls[p]
        IN  (IsDone(c) /\ c.op = "deleteProjectMoveToInbox" /\ c.began /\ c.status = "ok") =>
                /\ ~HasProject(db, c.arg.id)
                /\ c.result.inboxId # c.arg.id
                /\ HasProject(db, c.result.inboxId)
                /\ IdsOf(db.tasks) = IdsOf(c.pre.tasks)
                /\ \A t \in c.pre.tasks : \E u \in db.tasks :
                       /\ u.id = t.id
                       /\ u.project_id = IF t.project_id = c.arg.id THEN c.result.inboxId
                                         ELSE t.project_id

\* a successful delete of a project that held a task, beside a task held elsewhere
C3_Witness ==
    \E p \in Procs :
        LET c == calls[p]
        IN  /\ IsDone(c) /\ c.op = "deleteProjectMoveToInbox" /\ c.began /\ c.status = "ok"
            /\ \E t \in c.pre.tasks : t.project_id = c.arg.id
            /\ \E t \in c.pre.tasks : t.project_id # c.arg.id

\* C4: deleteProjectMoveToInbox on a project whose icon is "inbox" or whose name
\* is "inbox" in any letter case fails with the protection error and leaves the
\* four tables as they were
C4_InboxProtected ==
    \A p \in Procs :
        LET c == calls[p]
        IN  (/\ IsDone(c) /\ c.op = "deleteProjectMoveToInbox"
             /\ \E r \in c.pre.projects :
                    r.id = c.arg.id /\ (r.icon = "inbox" \/ ToLower(r.name) = inboxLower)) =>
                c.status = "protected" /\ db = c.pre

\* the delete of a project that is the inbox by its name alone, refused
C4_Witness ==
    \E p \in Procs :
        LET c == calls[p]
        IN  /\ IsDone(c) /\ c.op = "deleteProjectMoveToInbox" /\ c.status = "protected"
            /\ \E r \in c.pre.projects :
                   r.id = c.arg.id /\ r.icon # "inbox" /\ ToLower(r.name) = inboxLower

\* C5: once initDb has run, whenever no call is under way exactly one project
\* carries the icon "inbox"
C5_OneInboxMarker ==
    (booted /\ \A p \in Procs : AtRest(calls[p])) => Cardinality(InboxMarked(db)) = 1

\* C6: a listTasks or listProjects whose select ran inside the transaction of an
\* overlapping operation that then committed all its writes returned either the
\* rows as at that BEGIN or the rows as at that COMMIT
C6_ReadsAllOrNothing ==
    \A p \in Procs, q \in Procs :
        LET c == calls[p]
            w == calls[q]
        IN  (/\ IsDone(c) /\ c.op \in ReadOps /\ c.result.inTx
             /\ IsDone(w) /\ w.op \in TxOps /\ w.began /\ w.status = "ok") =>
                c.result.rows \in
                    {c.result.before,
                     IF c.op = "listTasks" THEN ListTasksRows(w.txAll, c.arg, TodayOf(clock))
                     ELSE ListProjectsRows(w.txAll)}

\* C7: when a statement of importBundle fails, the call raises the storage error
\* and the four tables are what they were before the import started
C7_ImportFailureRestores ==
    \A p \in Procs :
        LET c == calls[p]
        IN  (IsDone(c) /\ c.op = "importBundle" /\ c.status # "ok") =>
                c.status = "storage" /\ db = c.pre

\* an import that a constraint stopped after it had written rows
C7_Witness ==
    \E p \in Procs :
        LET c == calls[p]
        IN  /\ IsDone(c) /\ c.op = "importBundle" /\ c.status = "storage"
            /\ ~c.faulted /\ c.wrote >= 1 /\ c.txAll # c.pre

\* C8: the bundle exportBundle returns, imported into empty tables, yields the
\* tables it was exported from, row for row and field for field
C8_RoundTrip ==
    \A p \in Procs :
        LET c == calls[p]
        IN  (IsDone(c) /\ c.op = "exportBundle" /\ c.status = "ok") =>
                ImportRun(EmptyDb, c.result, clock) = Ok(db)

\* C9: after an import has succeeded, importing the same bundle again, now or at
\* any later time, succeeds and leaves the tables as they are
C9_ImportTwice ==
    \A p \in Procs :
        LET c == calls[p]
        IN  (IsDone(c) /\ c.op = "importBundle" /\ c.status = "ok") =>
                \A t \in clock..MaxClock : ImportRun(db, c.arg, t) = Ok(db)

BundleIds(rows) == {rows[i].id : i \in DOMAIN rows}

\* C10: after an import has succeeded, every project, task and tag row held
\* before whose id is not in the bundle, and every link held before whose pair is
\* not in the bundle, is still held, unchanged
C10_ImportFrame ==
    \A p \in Procs :
        LET c == calls[p]
        IN  (IsDone(c) /\ c.op = "importBundle" /\ c.status = "ok") =>
                /\ \A r \in c.pre.projects : r.id \notin BundleIds(c.arg.projects) => r \in db.projects
                /\ \A r \in c.pre.tasks : r.id \notin BundleIds(c.arg.tasks) => r \in db.tasks
                /\ \A r \in c.pre.tags : r.id \notin BundleIds(c.arg.tags) => r \in db.tags
                /\ \A l \in c.pre.task_tags : l \notin Range(c.arg.task_tags) => l \in db.task_tags

ImportSteps == {"im_pragma", "begin", "im_stmt", "commit", "rollback"}

\* no call has started after the call of caller p
Latest(p) == \A q \in Procs : q > p => calls[q].pc = "idle"

BundleRows(b) == Len(b.projects) + Len(b.tasks) + Len(b.tags) + Len(b.task_tags)

\* the row a statement of an import binds is held under its identity
StmtLanded(d, st) ==
    CASE st.kind = "project" -> HasProject(d, st.row.id)
      [] st.kind = "task" -> HasTask(d, st.row.id)
      [] st.kind = "tag" -> HasTag(d, st.row.id)
      [] OTHER -> st.row \in d.task_tags

\* C11: an import of a bundle that holds a row without its id (or id pair) or
\* its name or title, with no fault injected, raises no error and leaves every
\* other row of the bundle in the store
C11_SkipsAndCommits ==
    \A p \in Procs :
        LET c == calls[p]
        IN  (/\ IsDone(c) /\ c.op = "onImport" /\ c.sql > 0 /\ ~c.faulted
             /\ Len(ImportStmts(c.arg)) < BundleRows(c.arg) /\ Latest(p)) =>
                /\ c.status = "ok"
                /\ \A i \in DOMAIN ImportStmts(c.arg) : StmtLanded(db, ImportStmts(c.arg)[i])

\* C12: an import of a document that is an object whose version is absent or is
\* not the number 1 executes no statement, leaves the four tables as they were
\* and ends with the format error
C12_VersionChecked ==
    \A p \in Procs :
        LET c == calls[p]
        IN  (c.op = "onImport" /\ c.arg.parsed = "object" /\ c.arg.version # VersionOne) =>
                /\ c.sql = 0
                /\ Latest(p) => db = c.pre
                /\ c.pc \notin ImportSteps
                /\ IsDone(c) => c.status = "format"

\* a confirmed import of a document without a version, refused
C12_Witness ==
    \E p \in Procs :
        LET c == calls[p]
        IN  /\ IsDone(c) /\ c.op = "onImport" /\ c.arg.confirmed
            /\ c.arg.parsed = "object" /\ c.arg.version.type = "missing"
            /\ c.status = "format"

\* C13: an import is at a statement of importBundle, or has executed one, only
\* if the file was picked and confirmMerge answered true; a run in which the
\* pick was cancelled or the answer was false ends with no statement executed
\* and the four tables as they were
C13_ConfirmedFirst ==
    \A p \in Procs :
        LET c == calls[p]
        IN  c.op = "onImport" =>
                /\ (c.sql > 0 \/ c.pc \in ImportSteps) => (c.arg.picked /\ c.arg.confirmed)
                /\ (IsDone(c) /\ ~(c.arg.picked /\ c.arg.confirmed)) =>
                       (c.sql = 0 /\ (Latest(p) => db = c.pre) /\ c.status = "cancelled")

\* an import the user declined at the confirmation
C13_Witness ==
    \E p \in Procs :
        LET c == calls[p]
        IN  /\ IsDone(c) /\ c.op = "onImport" /\ c.arg.picked /\ ~c.arg.confirmed
            /\ c.status = "cancelled" /\ c.sql = 0

\* C14: an import the user declined at the confirmation ends without an error:
\* nothing is thrown to App and the error banner stays empty
C14_DeclineIsSilent ==
    \A p \in Procs :
        LET c == calls[p]
        IN  (IsDone(c) /\ c.op = "onImport" /\ c.arg.picked /\ ~c.arg.confirmed) =>
                c.status = "ok" /\ c.banner = ""

----------------------------------------------------------------------------
(* Properties of listTasks and reorderTasks *)

ListDone(c) == c.op = "listTasks" /\ c.pc = "done" /\ c.status = "ok"

RowIds(rows) == {rows[i].id : i \in DOMAIN rows}

TagsOf(d, id) == {l.tag_id : l \in {x \in d.task_tags : x.task_id = id}}

\* q occurs in t as a run of consecutive characters
Contains(t, q) == \E i \in 0..(Len(t) - Len(q)) : SubSeq(t, i + 1, i + Len(q)) = q

\* the call applies no filter but the one of its view
ViewOnly(c) == c.arg.projectId = NULL /\ c.arg.search = <<>> /\ c.arg.tagIds = <<>>

\* C15: a listTasks call given a non-empty list of tag ids (and nothing else)
\* returns exactly the tasks whose tags include every id of the list, whether or
\* not the list repeats an id
C15_TagSuperset ==
    \A p \in Procs :
        LET c == calls[p]
        IN  (/\ ListDone(c)
             /\ c.arg.view = "all" /\ c.arg.projectId = NULL /\ c.arg.search = <<>>
             /\ c.arg.tagIds # <<>>
             /\ \A i \in DOMAIN c.arg.tagIds : c.arg.tagIds[i] # "")
            => RowIds(c.result.rows)
                   = {r.id : r \in {x \in c.pre.tasks :
                                       Range(c.arg.tagIds) \subseteq TagsOf(c.pre, x.id)}}

\* C16: listTasks with the view "upcoming" and nothing else returns exactly the
\* tasks not completed that have no due date or are due after today
C16_Upcoming ==
    \A p \in Procs :
        LET c == calls[p]
        IN  (ListDone(c) /\ c.arg.view = "upcoming" /\ ViewOnly(c))
            => RowIds(c.result.rows)
                   = {r.id : r \in {x \in c.pre.tasks :
                                       /\ x.completed = 0
                                       /\ (x.due_at = NoDate \/ x.due_at > TodayOf(clock))}}

\* an "upcoming" listing that kept an undated task and a task due tomorrow and
\* dropped a task not completed that is due today
C16_Witness ==
    \E p \in Procs :
        LET c == calls[p]
        IN  /\ ListDone(c) /\ c.arg.view = "upcoming" /\ ViewOnly(c)
            /\ \E i, j \in DOMAIN c.result.rows :
                   /\ c.result.rows[i].dueAt = NoDate
                   /\ c.result.rows[j].dueAt = TodayOf(clock) + 1
            /\ \E r \in c.pre.tasks :
                   /\ r.completed = 0 /\ r.due_at = TodayOf(clock)
                   /\ r.id \notin RowIds(c.result.rows)

\* C17: listTasks with a project and any view returns all the tasks of that
\* project, completed or not, dated or not
C17_ScopeOverridesView ==
    \A p \in Procs :
        LET c == calls[p]
        IN  (/\ ListDone(c)
             /\ c.arg.projectId \in ProjIds /\ c.arg.search = <<>> /\ c.arg.tagIds = <<>>)
            => RowIds(c.result.rows)
                   = {r.id : r \in {x \in c.pre.tasks : x.project_id = c.arg.projectId}}

\* row a may stand before row b under ORDER BY sort_order, created_at
ByPosition(a, b) ==
    \/ a.sortOrder < b.sortOrder
    \/ (a.sortOrder = b.sortOrder /\ a.createdAt <= b.createdAt)

\* row a may stand before row b in a smart view
ByDueDate(a, b) ==
    \/ (a.dueAt # NoDate /\ b.dueAt = NoDate)
    \/ (a.dueAt # NoDate /\ b.dueAt # NoDate /\ a.dueAt < b.dueAt)
    \/ (a.dueAt = b.dueAt /\ ByPosition(a, b))

\* C18: what listTasks returns is sorted: with a project by position then
\* creation time; without one dated tasks first, by due date, then by position
\* and creation time
C18_Sorted ==
    \A p \in Procs :
        LET c == calls[p]
            rows == c.result.rows
        IN  ListDone(c) =>
                \A i, j \in DOMAIN rows :
                    i < j => IF c.arg.projectId \in ProjIds THEN ByPosition(rows[i], rows[j])
                             ELSE ByDueDate(rows[i], rows[j])

\* a listing without project of a dated task, then two undated ones of which
\* the later has the smaller id and the larger position or creation time
C18_Witness ==
    \E p \in Procs :
        LET c == calls[p]
            rows == c.result.rows
        IN  /\ ListDone(c) /\ c.arg.projectId = NULL
            /\ Len(rows) = 3
            /\ rows[1].dueAt # NoDate /\ rows[2].dueAt = NoDate /\ rows[3].dueAt = NoDate
            /\ rows[2].id = "t3" /\ rows[3].id = "t2"

\* C19: an empty or blank search text filters nothing; another one keeps exactly
\* the tasks whose title or notes contain the trimmed text, letter case aside
C19_SearchSubstring ==
    \A p \in Procs :
        LET c == calls[p]
            q == ToLower(Trim(c.arg.search))
        IN  (/\ ListDone(c)
             /\ c.arg.view = "all" /\ c.arg.projectId = NULL /\ c.arg.tagIds = <<>>)
            => RowIds(c.result.rows)
                   = IF q = <<>> THEN IdsOf(c.pre.tasks)
                     ELSE {r.id : r \in {x \in c.pre.tasks :
                                            \/ Contains(ToLower(x.title), q)
                                            \/ Contains(ToLower(x.notes), q)}}

\* orderedIds names each task of the project once and no other task
IsPermutationOf(ids, d, pid) ==
    /\ Range(ids) = {r.id : r \in {x \in d.tasks : x.project_id = pid}}
    /\ Cardinality(Range(ids)) = Len(ids)

\* caller 1 has reordered all the tasks of a project and caller 2 has then listed
\* that project with the view "all"
ReorderedThenListed ==
    /\ calls[1].op = "reorderTasks" /\ calls[1].pc = "done" /\ calls[1].status = "ok"
    /\ calls[1].arg.projectId \in ProjIds
    /\ IsPermutationOf(calls[1].arg.ids, calls[1].pre, calls[1].arg.projectId)
    /\ ListDone(calls[2])
    /\ calls[2].arg = Params("all", calls[1].arg.projectId, <<>>, <<>>)

\* C20: after reorderTasks(pid, orderedIds) with orderedIds a permutation of the
\* tasks of pid, listTasks of project pid returns the tasks in the order of orderedIds
C20_ReorderThenList ==
    ReorderedThenListed
    => [i \in DOMAIN calls[2].result.rows |-> calls[2].result.rows[i].id] = calls[1].arg.ids

\* the reorder put t2 ahead of t1, which stood ahead of it before
C20_Witness ==
    /\ ReorderedThenListed
    /\ calls[1].arg.ids = <<"t2", "t1">>
    /\ \E a, b \in calls[1].pre.tasks :
           a.id = "t1" /\ b.id = "t2" /\ a.sort_order < b.sort_order

----------------------------------------------------------------------------
(* Properties of the calls that take a name *)

Blank(name) == Range(name) \subseteq {" "}

\* name without the spaces around it, in lower case
Folded(name) ==
    LET inner == {i \in DOMAIN name : name[i] # " "}
        lo == CHOOSE i \in inner : \A j \in inner : i <= j
        hi == CHOOSE i \in inner : \A j \in inner : j <= i
    IN  IF inner = {} THEN <<>> ELSE [k \in 1..(hi - lo + 1) |-> LowerChar(name[lo + k - 1])]

\* caller 1 and then caller 2 have called op with a name that is not blank
BothDone(op) ==
    \A p \in Procs :
        calls[p].op = op /\ calls[p].pc = "done" /\ ~Blank(calls[p].arg.name)

\* C21: two createProject calls, one after the other, with names equal but for
\* letter case and outer spaces both succeed, store names that differ also when
\* letter case is ignored, and leave two projects under two ids
C21_DuplicateNames ==
    (BothDone("createProject") /\ Folded(calls[1].arg.name) = Folded(calls[2].arg.name))
    => /\ \A p \in Procs : calls[p].status = "ok" /\ calls[p].result \in db.projects
       /\ calls[1].result.id # calls[2].result.id
       /\ ToLower(calls[1].result.name) # ToLower(calls[2].result.name)

\* the first call stored the name as given and the second one a suffixed name
C21_Witness ==
    /\ BothDone("createProject") /\ Folded(calls[1].arg.name) = Folded(calls[2].arg.name)
    /\ calls[1].result.name = calls[1].arg.name
    /\ Len(calls[2].result.name) > Len(calls[2].arg.name)

\* C22: createProject, renameProject and ensureTag given a blank name fail with
\* a validation error and the tables stay as they were at the call
C22_BlankRejected ==
    \A p \in Procs :
        LET c == calls[p]
        IN  (/\ c.op \in {"createProject", "renameProject", "ensureTag"}
             /\ Blank(c.arg.name) /\ Latest(p))
            => /\ db = c.pre
               /\ c.pc = "done" => c.status = "validation"

\* createProject and then renameProject or ensureTag have rejected a blank name
C22_Witness ==
    /\ calls[1].op = "createProject" /\ calls[1].status = "validation"
    /\ calls[2].op \in {"renameProject", "ensureTag"} /\ calls[2].status = "validation"
    /\ db.projects # {}

\* C24: two ensureTag calls, one after the other: with the same trimmed name both
\* return the same id and one tag bears the name; with names that differ in
\* letter case only they return different ids
C24_EnsureTagIdempotent ==
    BothDone("ensureTag")
    => /\ \A p \in Procs : calls[p].status = "ok"
       /\ Trim(calls[1].arg.name) = Trim(calls[2].arg.name)
            => /\ calls[1].result.id = calls[2].result.id
               /\ Cardinality({r \in db.tags : r.name = Trim(calls[1].arg.name)}) = 1
       /\ (/\ Trim(calls[1].arg.name) # Trim(calls[2].arg.name)
           /\ Folded(calls[1].arg.name) = Folded(calls[2].arg.name))
            => calls[1].result.id # calls[2].result.id

\* the first call inserted the tag and the second one, given the name with a
\* space before it, found it
C24_Witness ==
    /\ BothDone("ensureTag")
    /\ calls[1].arg.name # calls[2].arg.name
    /\ Trim(calls[1].arg.name) = Trim(calls[2].arg.name)
    /\ calls[1].result \notin calls[1].pre.tags
    /\ calls[1].result = calls[2].result

\* C25: two overlapping ensureTag calls for one name that no tag bears yet both
\* succeed and return the same tag, and one tag bears the name afterwards
C25_EnsureTagConcurrent ==
    (/\ BothDone("ensureTag")
     /\ Trim(calls[1].arg.name) = Trim(calls[2].arg.name)
     /\ \A p \in Procs : \A r \in calls[p].pre.tags : r.name # Trim(calls[p].arg.name))
    => /\ \A p \in Procs : calls[p].status = "ok"
       /\ calls[1].result = calls[2].result
       /\ Cardinality({r \in db.tags : r.name = Trim(calls[1].arg.name)}) = 1

----------------------------------------------------------------------------
(* Properties of the calls that write tasks and their tags *)

\* caller p has returned from op without error and no call has started since
Returned(p, op) ==
    calls[p].op = op /\ calls[p].pc = "done" /\ calls[p].status = "ok" /\ Latest(p)

TaskOf(d, id) == CHOOSE r \in d.tasks : r.id = id

\* C23: no stored task has an empty or blank title
C23_TitlesNotBlank == \A r \in db.tasks : ~Blank(r.title)

SamePair(a, b) == a.taskId = b.taskId /\ a.tagId = b.tagId

\* C26: a second attachTagToTask of a pair of an existing task and tag raises no
\* error and leaves the tables as the first one left them; detachTagFromTask of
\* a pair that is not attached raises no error and leaves the tables as they were
C26_AttachDetachIdempotent ==
    /\ (/\ \A p \in Procs : calls[p].op = "attachTagToTask" /\ calls[p].pc = "done"
        /\ SamePair(calls[1].arg, calls[2].arg)
        /\ HasTask(calls[1].pre, calls[1].arg.taskId)
        /\ HasTag(calls[1].pre, calls[1].arg.tagId))
        => /\ \A p \in Procs : calls[p].status = "ok"
           /\ db = calls[2].pre
           /\ LinkRow(calls[1].arg.taskId, calls[1].arg.tagId) \in db.task_tags
    /\ \A p \in Procs :
           LET c == calls[p]
           IN  (/\ c.op = "detachTagFromTask" /\ c.pc = "done" /\ Latest(p)
                /\ LinkRow(c.arg.taskId, c.arg.tagId) \notin c.pre.task_tags)
               => c.status = "ok" /\ db = c.pre

\* the first attach added the pair and the second one found it
C26_Witness ==
    /\ \A p \in Procs : calls[p].op = "attachTagToTask" /\ calls[p].pc = "done"
    /\ SamePair(calls[1].arg, calls[2].arg)
    /\ LinkRow(calls[1].arg.taskId, calls[1].arg.tagId) \in db.task_tags \ calls[1].pre.task_tags

\* C27: every task_tags row refers to a stored task and a stored tag, and after
\* deleteTask(id) no row refers to id
C27_LinksResolve ==
    /\ \A l \in db.task_tags : HasTask(db, l.task_id) /\ HasTag(db, l.tag_id)
    /\ \A p \in Procs :
           Returned(p, "deleteTask") => \A l \in db.task_tags : l.task_id # calls[p].arg.id

\* deleteTask has removed a task that carried a tag
C27_Witness ==
    \E p \in Procs :
        /\ Returned(p, "deleteTask")
        /\ \E l \in calls[p].pre.task_tags : l.task_id = calls[p].arg.id
        /\ ~HasTask(db, calls[p].arg.id)

\* the value the patch holds for a column
PatchValue(patch, f) ==
    CASE f = "title" -> patch.title
      [] f = "notes" -> patch.notes
      [] f = "priority" -> patch.priority
      [] f = "dueAt" -> patch.dueAt
      [] OTHER -> patch.projectId

\* the value a row holds for a field of Task
FieldValue(r, f) ==
    CASE f = "title" -> r.title
      [] f = "notes" -> r.notes
      [] f = "priority" -> r.priority
      [] f = "dueAt" -> r.due_at
      [] OTHER -> r.project_id

PatchFields == {"title", "notes", "priority", "dueAt", "projectId"}

\* C28: updateTask on a stored task sets the fields of the patch and updatedAt,
\* also when the patch is empty, and nothing else in the tables
C28_UpdateFrame ==
    \A p \in Procs :
        LET c == calls[p]
        IN  (Returned(p, "updateTask") /\ HasTask(c.pre, c.arg.id))
            => /\ HasTask(db, c.arg.id)
               /\ LET old == TaskOf(c.pre, c.arg.id)
                      new == TaskOf(db, c.arg.id)
                  IN  /\ \A f \in PatchFields :
                             FieldValue(new, f) = IF f \in c.arg.patch.has
                                                  THEN PatchValue(c.arg.patch, f)
                                                  ELSE FieldValue(old, f)
                      /\ new.updated_at = c.result.now
                      /\ new.completed = old.completed
                      /\ new.sort_order = old.sort_order
                      /\ new.created_at = old.created_at
                      /\ db.tasks \ {new} = c.pre.tasks \ {old}
               /\ db.projects = c.pre.projects /\ db.tags = c.pre.tags
               /\ db.task_tags = c.pre.task_tags

\* an empty patch on a completed task refreshed updatedAt and nothing else
C28_Witness ==
    \E p \in Procs :
        LET c == calls[p]
        IN  /\ Returned(p, "updateTask") /\ HasTask(c.pre, c.arg.id)
            /\ c.arg.patch.has = {}
            /\ TaskOf(c.pre, c.arg.id).completed = 1
            /\ TaskOf(db, c.arg.id).updated_at > TaskOf(c.pre, c.arg.id).updated_at

Mutable(r) ==
    <<r.title, r.notes, r.priority, r.due_at, r.project_id, r.completed, r.sort_order>>

\* C29: a task that an operation has changed in title, notes, priority, dueAt,
\* projectId, completed or sortOrder bears the time of the operation as
\* updatedAt, and no earlier time than before
C29_UpdatedAtAdvances ==
    \A p \in Procs :
        LET c == calls[p]
        IN  (/\ c.op \in {"updateTask", "toggleTaskCompleted", "reorderTasks",
                           "deleteProjectMoveToInbox", "importBundle"}
             /\ c.pc = "done" /\ c.status = "ok" /\ Latest(p))
            => \A old \in c.pre.tasks : \A new \in db.tasks :
                   (old.id = new.id /\ Mutable(old) # Mutable(new))
                   => /\ new.updated_at = c.result.now
                      /\ new.updated_at >= old.updated_at

\* (sortOrder, createdAt) tells any two rows apart
Apart(a, b) == a.sort_order # b.sort_order \/ a.created_at # b.created_at

\* C30: outside a transaction and with no import made, no two tasks of one
\* project (or of none) and no two projects tie on both sortOrder and createdAt
C30_TotalOrder ==
    (~inTx /\ \A p \in Procs : calls[p].op # "importBundle")
    => /\ \A a, b \in db.tasks : (a.id # b.id /\ a.project_id = b.project_id) => Apart(a, b)
       /\ \A a, b \in db.projects : a.id # b.id => Apart(a, b)

----------------------------------------------------------------------------
(* Properties of deleteProjectMoveToInbox, reorderTasks and createTask *)

\* C31: when deleteProjectMoveToInbox has failed with a storage error the tables
\* are as they were at the call, without an Inbox project the call created
C31_FailedDeleteRestores ==
    \A p \in Procs :
        LET c == calls[p]
        IN  (/\ c.op = "deleteProjectMoveToInbox" /\ c.pc = "done"
             /\ c.status = "storage" /\ Latest(p))
            => db = c.pre

\* C40: deleteProjectMoveToInbox with an id of no project returns without error,
\* begins no transaction, inserts no Inbox project and leaves the tables as they were
C40_AbsentProject ==
    \A p \in Procs :
        LET c == calls[p]
        IN  (/\ c.op = "deleteProjectMoveToInbox" /\ c.pc = "done"
             /\ ~HasProject(c.pre, c.arg.id) /\ Latest(p))
            => /\ c.status = "ok"
               /\ ~c.began /\ c.lazy = "" /\ c.wrote = 0
               /\ db = c.pre

\* the call returned on a store that has no Inbox project
C40_Witness ==
    \E p \in Procs :
        LET c == calls[p]
        IN  /\ c.op = "deleteProjectMoveToInbox" /\ c.pc = "done"
            /\ ~HasProject(c.pre, c.arg.id) /\ Latest(p)
            /\ c.pre.projects # {}
            /\ \A r \in c.pre.projects : ~IsInbox(r)

----------------------------------------------------------------------------
(* Properties of overlapping calls *)

\* C35: two overlapping createProject calls with names equal but for letter case
\* that both return leave projects whose names differ also when letter case is
\* ignored
C35_ConcurrentNamesDiffer ==
    (/\ BothDone("createProject")
     /\ \A p \in Procs : calls[p].status = "ok"
     /\ Folded(calls[1].arg.name) = Folded(calls[2].arg.name))
    => ToLower(calls[1].result.name) # ToLower(calls[2].result.name)

\* C36: the task a createTask call has returned and the tag an ensureTag call has
\* returned stay in the tables while no call deletes them
C36_WritesSurvive ==
    \A p \in Procs :
        LET c == calls[p]
        IN  /\ (c.op = "createTask" /\ c.pc = "done" /\ c.status = "ok")
                => HasTask(db, c.result.id)
            /\ (c.op = "ensureTag" /\ c.pc = "done" /\ c.status = "ok")
                => c.result \in db.tags

\* C37: while initDb is all that has been called, at most one project carries
\* the icon "inbox", and a call made on a store with a project adds none
C37_InitDbOnce ==
    (\A q \in Procs : calls[q].op \in {"none", "initDb"})
    => /\ Cardinality(InboxMarked(db)) <= 1
       /\ \A p \in Procs :
              (calls[p].op = "initDb" /\ calls[p].pre.projects # {})
              => db.projects = calls[p].pre.projects

\* the bundle's links name tasks and tags of the bundle, its tasks projects of
\* the bundle
Closed(b) ==
    /\ \A l \in Range(b.task_tags) :
           /\ \E t \in Range(b.tasks) : t.id = l.task_id
           /\ \E g \in Range(b.tags) : g.id = l.tag_id
    /\ \A t \in Range(b.tasks) :
           t.project_id # NULL => \E r \in Range(b.projects) : r.id = t.project_id

\* C38: every bundle exportBundle returns is closed under its references
C38_ExportClosed ==
    \A p \in Procs :
        (calls[p].op = "exportBundle" /\ calls[p].pc = "done" /\ calls[p].status = "ok")
        => Closed(calls[p].result)

----------------------------------------------------------------------------
(* Properties of the values createTask and createProject store *)

\* the tasks of d that createTask counts for project id pid
Scope(d, pid) == {r \in d.tasks : r.project_id = pid}

\* C33: the task a createTask call has stored is not completed, has priority 0,
\* no notes and no due date; its sort_order is 0 in an empty scope and otherwise
\* one more than the largest of its scope, and listTasks of its project ends with it
C33_CreateTaskDefaults ==
    \A p \in Procs :
        Returned(p, "createTask") =>
            LET c == calls[p]
                row == c.result
                scope == Scope(c.pre, c.arg.projectId)
                rows == ListTasksRows(db, Params("all", c.arg.projectId, <<>>, <<>>), clock)
            IN  /\ row \in db.tasks
                /\ row.completed = 0 /\ row.priority = 0
                /\ row.notes = <<>> /\ row.due_at = NoDate
                /\ row.project_id = c.arg.projectId
                /\ \A r \in scope : r.sort_order < row.sort_order
                /\ row.sort_order = MaxOf({r.sort_order : r \in scope}, -1) + 1
                /\ c.arg.projectId # NULL => rows[Len(rows)].id = row.id

\* a createTask call has added a task to a project that held tasks, while Inbox
\* held none
C33_Witness ==
    \E p \in Procs :
        /\ Returned(p, "createTask")
        /\ calls[p].arg.projectId = "p2"
        /\ Scope(calls[p].pre, "p2") # {}
        /\ Scope(calls[p].pre, "p1") = {}
        /\ calls[p].result.sort_order > 0

\* C34: createProject stores the trimmed name when no project read has it in
\* any letter case, and otherwise the name with " (N)" for the least N >= 2
\* whose result no project read has in any letter case
C34_UniqueNameLeast ==
    \A p \in Procs :
        Returned(p, "createProject") =>
            LET c == calls[p]
                base == Trim(c.arg.name)
                lower == {ToLower(r.name) : r \in c.pre.projects}
                taken(n) == ToLower(Suffixed(base, n)) \in lower
            IN  /\ c.result \in db.projects
                /\ IF ToLower(base) \notin lower
                   THEN c.result.name = base
                   ELSE \E n \in 2..(Cardinality(lower) + 2) :
                            /\ c.result.name = Suffixed(base, n)
                            /\ ~taken(n)
                            /\ \A m \in 2..(n - 1) : taken(m)

\* a createProject call has stored its name with the suffix " (3)"
C34_Witness ==
    \E p \in Procs :
        /\ Returned(p, "createProject")
        /\ calls[p].result.name = Suffixed(Trim(calls[p].arg.name), 3)

----------------------------------------------------------------------------
(* Properties of reorderTasks on a part of a project *)

\* the calls of reorderTasks that have ended, with no call started since
Reordered(p) ==
    calls[p].op = "reorderTasks" /\ calls[p].pc = "done" /\ Latest(p)

\* the positions of orderedIds that name a task of the project
Named(c) ==
    {i \in DOMAIN c.arg.ids :
        \E r \in c.pre.tasks : r.id = c.arg.ids[i] /\ r.project_id = c.arg.projectId}

\* C32: reorderTasks leaves projects, tags and links as they were, removes and
\* adds no task, changes no field of a task but sort_order and updated_at, changes
\* no task that orderedIds does not name or that is not of the project given
\* (null for the tasks of no project), and fails on no id, be it of another
\* project or of no task
C32_ReorderFrame ==
    \A p \in Procs :
        Reordered(p) =>
            LET c == calls[p]
            IN  /\ db.projects = c.pre.projects
                /\ db.tags = c.pre.tags
                /\ db.task_tags = c.pre.task_tags
                /\ IdsOf(db.tasks) = IdsOf(c.pre.tasks)
                /\ \A r \in c.pre.tasks :
                       LET now == TaskOf(db, r.id)
                       IN  /\ [now EXCEPT !.sort_order = r.sort_order,
                                          !.updated_at = r.updated_at] = r
                           /\ (r.id \notin Range(c.arg.ids) \/ r.project_id # c.arg.projectId)
                              => now = r
                /\ ~c.faulted => c.status = "ok"

\* a reorderTasks call given the id of no task and the id of a task of another
\* project has returned, and has moved no task
C32_Witness ==
    \E p \in Procs :
        /\ Reordered(p)
        /\ calls[p].status = "ok"
        /\ calls[p].arg.ids = <<"t9", "t3">>
        /\ \E r \in calls[p].pre.tasks : r.id = "t3" /\ r.project_id # calls[p].arg.projectId
        /\ clock > 0
        /\ db = calls[p].pre

\* the place of task id in the rows listTasks returned (0 when it is not there)
PlaceIn(rows, id) ==
    IF \E k \in DOMAIN rows : rows[k].id = id
    THEN CHOOSE k \in DOMAIN rows : rows[k].id = id
    ELSE 0

\* C39: after reorderTasks with orderedIds that name no id twice, each task of
\* the project that orderedIds names has its place in orderedIds, counted from 0,
\* as sort_order, each other task has the sort_order it had, and listTasks of
\* the project shows the named tasks in the order of orderedIds
C39_PartialReorder ==
    \A p \in Procs :
        LET c == calls[p]
        IN  (/\ c.op = "reorderTasks" /\ c.pc = "done" /\ c.status = "ok"
             /\ Cardinality(Range(c.arg.ids)) = Len(c.arg.ids))
            => /\ Latest(p) =>
                      /\ \A i \in Named(c) : TaskOf(db, c.arg.ids[i]).sort_order = i - 1
                      /\ \A r \in c.pre.tasks :
                             r.id \notin {c.arg.ids[i] : i \in Named(c)}
                             => TaskOf(db, r.id).sort_order = r.sort_order
               /\ \A q \in Procs :
                      (/\ q > p /\ ListDone(calls[q])
                       /\ c.arg.projectId # NULL
                       /\ calls[q].arg.projectId = c.arg.projectId)
                      => \A i, j \in Named(c) :
                             i < j => /\ PlaceIn(calls[q].result.rows, c.arg.ids[i]) > 0
                                      /\ PlaceIn(calls[q].result.rows, c.arg.ids[i])
                                             < PlaceIn(calls[q].result.rows, c.arg.ids[j])

\* reorderTasks has put t3 ahead of t1 in a project of three tasks without
\* naming t2, and listTasks of the project has shown t3 ahead of t1
C39_Witness ==
    /\ calls[1].op = "reorderTasks" /\ calls[1].pc = "done" /\ calls[1].status = "ok"
    /\ calls[1].arg = [projectId |-> "p2", ids |-> <<"t3", "t1">>]
    /\ \E a, b \in calls[1].pre.tasks :
           /\ a.id = "t1" /\ b.id = "t3" /\ b.project_id = "p2"
           /\ a.sort_order < b.sort_order
    /\ ListDone(calls[2])
    /\ calls[2].arg.projectId = "p2"
    /\ PlaceIn(calls[2].result.rows, "t3") < PlaceIn(calls[2].result.rows, "t1")
    /\ PlaceIn(calls[2].result.rows, "t2") > 0

====
